---------------------------- MODULE Spec2Model ----------------------------
(* Verification model of the xComfort Bridge connection engine.            *)
(*                                                                         *)
(* SpecTx     : ConnectionManager reliable send (sendWithRetry, the        *)
(*              transmit semaphore, ACK/NACK resolution, socket close,     *)
(*              disconnect) within one established session, up to and      *)
(*              after the end of it.                                       *)
(* SpecBridge : the facade XComfortBridge (device-only revision) with its  *)
(*              ConnectionManager and Authenticator: connection attempts,  *)
(*              a peer that follows the handshake, timers, watchdog,       *)
(*              reconnect scheduling.  FairSpecBridge adds the timers of   *)
(*              the event loop.                                            *)
(* SpecAuth   : the facade (revision with rooms) and the Authenticator     *)
(*              under frames of any type in any order.                     *)
(* SpecLogin  : the single-class XComfortBridge of lib/connection/Bridge.ts *)
(*              with its login retry.                                      *)
EXTENDS Integers, Sequences, FiniteSets, TLC

\* ------------------------------------------------------------------ bounds
NumCalls == 2
\* largest message counter used within one connection attempt
MaxMc == 10
\* number of encryption contexts generated in a behaviour
MaxKeys == 2
\* number of setImmediate callbacks waiting at a time
MaxImmediate == 2
\* number of sockets of the monolith that exist at a time
MaxSockets == 2
\* largest value of loginAttempts of the monolith
MaxAttempts == 4
\* number of setTimeout callbacks of the monolith pending at a time
MaxTimers == 2
\* largest reconnectAttempt with which the reconnect timer fires
MaxReconnects == 3
\* largest reconnectAttempt the backoff is computed for
MaxBackoff == 12

\* ------------------------------------------------------- program constants
maxRetries == 3
HEARTBEAT == 2
CONNECTION_START == 10
CONNECTION_CONFIRM == 11
SC_INIT_RESPONSE == 12
CONNECTION_DECLINED == 13
SC_INIT_REQUEST == 14
PUBLIC_KEY_RESPONSE == 15
SECRET_EXCHANGE == 16
SECRET_EXCHANGE_ACK == 17
LOGIN_REQUEST == 30
LOGIN_RESPONSE == 32
TOKEN_APPLY == 33
TOKEN_APPLY_ACK == 34
TOKEN_RENEW == 37
TOKEN_RENEW_RESPONSE == 38
\* PROTOCOL_CONFIG.TIMEOUTS (ms) and the reconnect backoff
TIMEOUTS_HEARTBEAT == 30000
RECONNECT_DELAY == 5000
MAX_RECONNECT_DELAY == 60000
ABNORMAL_CLOSURE == 1006
REQUEST_DEVICES == 240
REQUEST_ROOMS == 242
SET_ALL_DATA == 300
\* enum MessageType of lib/connection/Bridge.ts
HELLO == 10
HELLO_CONFIRM == 11
CONNECTION_ESTABLISHED == 12
SC_INIT == 14
SC_PUBLIC_KEY == 15
SC_CLIENT_KEY == 16
SC_ACK == 17
LOGIN == 30
LOGIN_OK == 31

Calls == 1..NumCalls

VARIABLES
  ws,                 \* ConnectionManager.ws: "null" | "connecting" | "open" | "closed"
  encryptionContext,  \* ConnectionManager.encryptionContext: 0 = null, k = the k-th generated context
  mc,                 \* ConnectionManager.mc
  permits,            \* Semaphore.permits of txSemaphore
  queue,              \* Semaphore.queue (FIFO of waiting acquirers)
  pendingAcks,        \* ConnectionManager.pendingAcks: counter -> call owning the resolver
  call,               \* closure state of each sendWithRetry invocation
  connectionEstablished, \* ConnectionManager.connectionEstablished
  reconnecting,       \* ConnectionManager.reconnecting
  heartbeatInterval,  \* ConnectionManager.heartbeatInterval is set
  facade,             \* revision of XComfortBridge: "part_021" | "part_022"
  deviceListReceived, \* XComfortBridge.deviceListReceived
  allowReconnect,     \* XComfortBridge.allowReconnect
  connectionTimeout,  \* XComfortBridge.connectionTimeout is armed
  connectionCheckInterval, \* XComfortBridge.connectionCheckInterval is set
  reconnectTimer,     \* XComfortBridge.reconnectTimer is armed
  watchdogInterval,   \* XComfortBridge.watchdogInterval is set
  connectCaller,      \* who awaits the pending promise of connect(): "none" | "init" | "reconnect"
  authenticator,      \* the fields of the Authenticator
  keyCount,           \* number of contexts crypto.randomBytes has produced so far
  oldKeys,            \* history: keyCount when the current connection attempt began
  immediate,          \* setImmediate callbacks not yet run (FIFO)
  silence,            \* Date.now() - ConnectionManager.lastMessageAt (ms), as far as the watchdog tells it apart
  reconnectAttempt,   \* XComfortBridge.reconnectAttempt
  lastCloseCode,      \* XComfortBridge.lastCloseCode
  reconnectDelay,     \* history: the delay of the reconnect last scheduled since cleanup()
  scenario,           \* history: the inbound messages of the current attempt and the replies to them
  bridge,             \* the XComfortBridge of lib/connection/Bridge.ts (the single-class engine)
  handler,            \* the MessageHandler of lib/messaging with its DeviceStateManager
  debouncers,         \* XComfortBridge.dimDebouncers with the dimDevice calls in progress
  sem,                \* a Semaphore of utils with the callers of its acquire()
  frame               \* a message on its way through encryption and decryption

txVars == <<ws, encryptionContext, mc, permits, queue, pendingAcks, call>>

bridgeVars == <<connectionEstablished, reconnecting, heartbeatInterval, facade,
                deviceListReceived, allowReconnect, connectionTimeout,
                connectionCheckInterval, reconnectTimer, watchdogInterval,
                connectCaller, authenticator, keyCount, oldKeys, immediate,
                silence, reconnectAttempt, lastCloseCode,
                reconnectDelay, scenario>>

otherVars == <<handler, debouncers, sem, frame>>

vars == <<ws, encryptionContext, mc, permits, queue, pendingAcks, call,
          connectionEstablished, reconnecting, heartbeatInterval, facade,
          deviceListReceived, allowReconnect, connectionTimeout,
          connectionCheckInterval, reconnectTimer, watchdogInterval,
          connectCaller, authenticator, keyCount, oldKeys, immediate,
          silence, reconnectAttempt, lastCloseCode,
          reconnectDelay, scenario, bridge, handler, debouncers, sem, frame>>

EmptyMap == [k \in {} |-> 0]

MapRemove(f, k) == [x \in (DOMAIN f) \ {k} |-> f[x]]

MapSet(f, k, v) == [x \in (DOMAIN f) \cup {k} |-> IF x = k THEN v ELSE f[x]]

\* A sendWithRetry closure before the call is made (call i is the i-th
\* invocation).  The fields off, sent, txMc, timedOut, acked and released are
\* history variables.  off = "none": only transmissions, ACK timeouts and an
\* ACK received while the ACK timer ran have happened to the call so far;
\* otherwise off is the first other event: "close" (the socket closed under
\* its pending entry) or "other" (a NACK, an ACK outside the ACK wait, a
\* teardown, a send attempt without connection).  While off = "none", sent /
\* txMc / timedOut / acked record the transmissions made, the counters they
\* carried, the ACK timeouts fired and the ACK; they are dropped afterwards.  released: the permits the call gave
\* back (2 stands for "more than one").
NewCall ==
  [mc |-> 0, retries |-> 0, ackTimeoutTimer |-> FALSE, retryPending |-> 0,
   releaseSemaphore |-> FALSE, settled |-> "idle",
   sent |-> 0, txMc |-> {}, timedOut |-> 0, released |-> 0,
   acked |-> FALSE, off |-> "none"]

\* The part of the state the closures of sendWithRetry work on; granted is
\* the microtask queue of acquirers whose acquire() promise has resolved.
TxState == [permits |-> permits, queue |-> queue, granted |-> << >>,
            pendingAcks |-> pendingAcks, call |-> call]

isConnected == encryptionContext # 0 /\ ws = "open"

\* sendEncrypted returns false without a context or an open socket.
sendEncrypted(conn) == conn

\* Val(set) is the element of a one-element set: {F(x) : x \in {e}} makes
\* the model checker evaluate the argument e once, as a call evaluates it.
Val(set) == CHOOSE x \in set : TRUE

\* new Semaphore(n).  holders and waiting are history: the callers whose
\* acquire() has returned and have not released since, and the callers
\* whose acquire() has not returned, in the order of their calls; served
\* is the waiter the last release() admitted while another one waited (0: none)
NewSemaphore(n) ==
  [permits |-> n, queue |-> << >>, granted |-> << >>,
   size |-> n, holders |-> {}, waiting |-> << >>, served |-> 0]

\* mutant of release: the waiter that came last is admitted
release_lifo(S0) == Val({
  IF Len(S.queue) > 0
    THEN [S EXCEPT !.queue = SubSeq(S.queue, 1, Len(S.queue) - 1),
                   !.granted = Append(S.granted, S.queue[Len(S.queue)])]
    ELSE [S EXCEPT !.permits = S.permits + 1]
  : S \in {S0}})

\* Semaphore.release
release(S0) == Val({
  IF Len(S.queue) > 0
    THEN [S EXCEPT !.queue = Tail(S.queue),
                   !.granted = Append(S.granted, Head(S.queue))]
    ELSE [S EXCEPT !.permits = S.permits + 1]
  : S \in {S0}})

\* Semaphore.acquire by call i
acquire(S0, i) == Val({
  IF S.permits > 0
    THEN [S EXCEPT !.permits = S.permits - 1, !.granted = Append(S.granted, i)]
    ELSE [S EXCEPT !.queue = Append(S.queue, i)]
  : S \in {S0}})

\* history: the event why takes the call off the timeout-only path
Off(c, why) ==
  IF c.off = "none"
    THEN [c EXCEPT !.off = why, !.sent = 0, !.txMc = {}, !.timedOut = 0,
                   !.acked = FALSE]
    ELSE c

\* resolve(true) / reject(...) of the promise of call i: the first one wins
settle(S0, i, outcome) == Val({
  IF S.call[i].settled = "pending"
    THEN [S EXCEPT !.call[i].settled = outcome]
    ELSE S
  : S \in {S0}})

\* the closure cleanup() of sendWithRetry
cleanup(S0, i) == Val({
  LET S1 == [S EXCEPT !.call[i].ackTimeoutTimer = FALSE,
                      !.pendingAcks = MapRemove(S.pendingAcks, S.call[i].mc)]
  IN IF S.call[i].releaseSemaphore
       THEN release([S1 EXCEPT !.call[i].released = IF @ < 2 THEN @ + 1 ELSE 2])
       ELSE S1
  : S \in {S0}})

\* mutant of handleFailure: one retry too many (<= for <)
handleFailure_offByOne(S0, i) == Val({
  IF S.call[i].retries <= maxRetries
    THEN [S EXCEPT !.call[i].retries = S.call[i].retries + 1,
                   !.call[i].ackTimeoutTimer = FALSE,
                   !.call[i].retryPending = S.call[i].retryPending + 1]
    ELSE settle(cleanup(S, i), i, "rejected")
  : S \in {S0}})

\* the closure handleFailure() of sendWithRetry
handleFailure(S0, i) == Val({
  IF S.call[i].retries < maxRetries
    THEN [S EXCEPT !.call[i].retries = S.call[i].retries + 1,
                   !.call[i].ackTimeoutTimer = FALSE,
                   !.call[i].retryPending = S.call[i].retryPending + 1]
    ELSE settle(cleanup(S, i), i, "rejected")
  : S \in {S0}})

\* the closure sendAttempt() of sendWithRetry
sendAttempt(S0, i, conn) == Val({
  IF ~conn
    THEN settle(cleanup([S EXCEPT !.call[i] = Off(@, "other")], i), i, "rejected")
    ELSE IF ~sendEncrypted(conn)
      THEN handleFailure(S, i)
      ELSE [S EXCEPT !.call[i].sent = IF S.call[i].off = "none" THEN @ + 1 ELSE @,
                     !.call[i].txMc = IF S.call[i].off = "none" THEN @ \cup {S.call[i].mc} ELSE @,
                     !.pendingAcks = MapSet(S.pendingAcks, S.call[i].mc, i),
                     !.call[i].ackTimeoutTimer = TRUE]
  : S \in {S0}})

\* the resolver stored in pendingAcks by sendAttempt of call i
resolver(S, i, ok) ==
  IF ok
    THEN settle(cleanup(S, i), i, "resolved")
    ELSE handleFailure(S, i)

\* ConnectionManager.handleAck
handleAck(S0, m) == Val({
  IF m \in DOMAIN S.pendingAcks
    THEN Val({[S1 EXCEPT !.pendingAcks = MapRemove(S1.pendingAcks, m)]
              : S1 \in {resolver(S, S.pendingAcks[m], TRUE)}})
    ELSE S
  : S \in {S0}})

\* mutant of handleNack: a NACK rejects the call at once
handleNack_reject(S0, m) == Val({
  IF m \in DOMAIN S.pendingAcks
    THEN settle(cleanup(S, S.pendingAcks[m]), S.pendingAcks[m], "rejected")
    ELSE S
  : S \in {S0}})

\* ConnectionManager.handleNack
handleNack(S0, m) == Val({
  IF m \in DOMAIN S.pendingAcks
    THEN resolver(S, S.pendingAcks[m], FALSE)
    ELSE S
  : S \in {S0}})

\* the loop of clearPendingAcks over the entries (resolvers of distinct
\* calls work on disjoint closures, so the order of the loop is immaterial)
RECURSIVE ResolveAllFalse(_, _)
ResolveAllFalse(S0, keys) == Val({
  IF keys = {} THEN S
  ELSE LET k == CHOOSE x \in keys : \A y \in keys : x <= y
       IN IF k \in DOMAIN S.pendingAcks
            THEN ResolveAllFalse(resolver(S, S.pendingAcks[k], FALSE), keys \ {k})
            ELSE ResolveAllFalse(S, keys \ {k})
  : S \in {S0}})

\* mutant of clearPendingAcks: the map is cleared, the resolvers are not called
clearPendingAcks_silent(S) == [S EXCEPT !.pendingAcks = EmptyMap]

\* ConnectionManager.clearPendingAcks
clearPendingAcks(S0) == Val({
  IF Cardinality(DOMAIN S.pendingAcks) > 0
    THEN [ResolveAllFalse(S, DOMAIN S.pendingAcks) EXCEPT !.pendingAcks = EmptyMap]
    ELSE S
  : S \in {S0}})

\* The continuations `.then(() => { releaseSemaphore = ...; sendAttempt() })`
\* of the acquirers admitted during a handler run as microtasks when the
\* handler has returned, so they see the connection as the handler left it.
RECURSIVE Drain(_, _)
Drain(S0, conn) == Val({
  IF S.granted = << >> THEN S
  ELSE LET j == Head(S.granted)
           S1 == [S EXCEPT !.granted = Tail(S.granted),
                           !.call[j].releaseSemaphore = TRUE]
       IN Drain(sendAttempt(S1, j, conn), conn)
  : S \in {S0}})

\* writes the sendWithRetry part of the result of a handler back
Commit(S0) ==
  \E S \in {S0} :
    /\ permits' = S.permits
    /\ queue' = S.queue
    /\ pendingAcks' = S.pendingAcks
    /\ call' = S.call

\* the calls whose pending entry a close or teardown resolves false
Owners(S) == {S.pendingAcks[k] : k \in DOMAIN S.pendingAcks}

MarkHit(S0, byClose) == Val({
  [S EXCEPT !.call = [i \in Calls |->
     IF i \in Owners(S)
       THEN Off(S.call[i], IF byClose /\ S.call[i].settled = "pending"
                             THEN "close" ELSE "other")
       ELSE S.call[i]]]
  : S \in {S0}})

\* ------------------------------------------------- the whole program state
\* Authenticator.reset(): the fields after construction and after reset
AuthReset ==
  [deviceId |-> 0, connectionId |-> 0, publicKey |-> 0, encryptionContext |-> 0,
   token |-> 0, state |-> "idle", isRenewing |-> FALSE]

\* history: a connection attempt starts with no message received; snapshot,
\* a SET_ALL_DATA with lastItem was received on this connection; ignored, a
\* message without a required field was received on it
NewScenario ==
  [on |-> TRUE, inLog |-> << >>, sentLog |-> << >>, snapshot |-> FALSE, ignored |-> FALSE]

\* The state the handlers work on.  sent collects the messages the running
\* handler puts on the socket (acknowledgements aside), handled is the
\* return value of the Authenticator's handler.
State ==
  [permits |-> permits, queue |-> queue, granted |-> << >>,
   pendingAcks |-> pendingAcks, call |-> call,
   ws |-> ws, encryptionContext |-> encryptionContext, mc |-> mc,
   connectionEstablished |-> connectionEstablished,
   reconnecting |-> reconnecting, heartbeatInterval |-> heartbeatInterval,
   facade |-> facade, deviceListReceived |-> deviceListReceived,
   allowReconnect |-> allowReconnect, connectionTimeout |-> connectionTimeout,
   connectionCheckInterval |-> connectionCheckInterval,
   reconnectTimer |-> reconnectTimer, watchdogInterval |-> watchdogInterval,
   connectCaller |-> connectCaller, authenticator |-> authenticator,
   keyCount |-> keyCount, oldKeys |-> oldKeys, immediate |-> immediate,
   silence |-> silence,
   reconnectAttempt |-> reconnectAttempt, lastCloseCode |-> lastCloseCode,
   reconnectDelay |-> reconnectDelay,
   scenario |-> scenario, debouncers |-> debouncers, sent |-> << >>,
   handled |-> FALSE]

\* ConnectionManager.isConnected in the state S
isConnectedIn(S) == S.encryptionContext # 0 /\ S.ws = "open"

\* writes the result of a handler back to the variables, after the
\* microtasks it has queued
Apply(S0) ==
  \E S \in {Drain(S0, isConnectedIn(S0))} :
    /\ Commit(S)
    /\ ws' = S.ws
    /\ encryptionContext' = S.encryptionContext
    /\ mc' = S.mc
    /\ connectionEstablished' = S.connectionEstablished
    /\ reconnecting' = S.reconnecting
    /\ heartbeatInterval' = S.heartbeatInterval
    /\ facade' = S.facade
    /\ deviceListReceived' = S.deviceListReceived
    /\ allowReconnect' = S.allowReconnect
    /\ connectionTimeout' = S.connectionTimeout
    /\ connectionCheckInterval' = S.connectionCheckInterval
    /\ reconnectTimer' = S.reconnectTimer
    /\ watchdogInterval' = S.watchdogInterval
    /\ connectCaller' = S.connectCaller
    /\ authenticator' = S.authenticator
    /\ keyCount' = S.keyCount
    /\ oldKeys' = S.oldKeys
    /\ immediate' = S.immediate
    /\ silence' = S.silence
    /\ reconnectAttempt' = S.reconnectAttempt
    /\ lastCloseCode' = S.lastCloseCode
    /\ reconnectDelay' = S.reconnectDelay
    /\ scenario' = S.scenario
    /\ debouncers' = S.debouncers
    /\ UNCHANGED <<bridge, handler, sem, frame>>

\* ------------------------------------------------------- ConnectionManager
\* ConnectionManager.nextMc
nextMc(S) == [S EXCEPT !.mc = S.mc + 1]

\* an outbound message: type and the value it carries (connection id,
\* context, device id or token; 0 for none)
Out(t, v) == [type_int |-> t, val |-> v]

\* ConnectionManager.sendRaw: dropped unless the socket is open
sendRaw(S, m) ==
  IF S.ws = "open" THEN [S EXCEPT !.sent = Append(S.sent, m)] ELSE S

\* ConnectionManager.sendEncrypted of a message built with nextMc()
sendEncryptedMsg(S0, m) ==
  LET S == nextMc(S0)
  IN IF sendEncrypted(isConnectedIn(S))
       THEN [S EXCEPT !.sent = Append(S.sent, m)]
       ELSE S

\* ConnectionManager.stopHeartbeat
stopHeartbeat(S) == [S EXCEPT !.heartbeatInterval = FALSE]

\* ConnectionManager.startHeartbeat
startHeartbeat(S) == [stopHeartbeat(S) EXCEPT !.heartbeatInterval = TRUE]

\* ConnectionManager.markMessageReceived(timestamp) with the time of
\* receipt: lastMessageAt = Date.now()
markMessageReceived(S) == [S EXCEPT !.silence = 0]

\* Date.now() - ConnectionManager.getLastMessageAt()
sinceLastMessage(S) == S.silence

\* ConnectionManager.isHeartbeatRunning
isHeartbeatRunning(S) == S.heartbeatInterval

\* ConnectionManager.restartHeartbeat
restartHeartbeat(S) == startHeartbeat(S)

\* ConnectionManager.markEstablished
markEstablished(S) == [S EXCEPT !.connectionEstablished = TRUE]

\* ConnectionManager.cleanup: the listeners of the socket are removed, so
\* its close handler never runs; encryptionContext is left as it is
managerCleanup(S0) ==
  LET S == clearPendingAcks(MarkHit(stopHeartbeat(S0), FALSE))
  IN IF S.ws # "null" THEN [S EXCEPT !.ws = "null"] ELSE S

\* ------------------------------------------------------------ Authenticator
\* mutant of getStringField: a missing field reads as a string
getStringField_lenient(payload, key) == IF payload[key] = 0 THEN 1 ELSE payload[key]

\* Authenticator.getStringField: 0 stands for a missing, non-string or
\* empty field
getStringField(payload, key) == payload[key]

\* Authenticator.handleUnencryptedMessage
handleUnencryptedMessage(S, msg) ==
  IF msg.type_int = CONNECTION_START THEN
    LET deviceId == getStringField(msg.payload, "device_id")
        connectionId == getStringField(msg.payload, "connection_id")
    IN IF deviceId = 0 \/ connectionId = 0
         THEN [S EXCEPT !.handled = TRUE]
         ELSE sendRaw(nextMc([S EXCEPT !.authenticator.deviceId = deviceId,
                                       !.authenticator.connectionId = connectionId,
                                       !.authenticator.state = "awaiting_public_key",
                                       !.handled = TRUE]),
                      Out(CONNECTION_CONFIRM, connectionId))
  ELSE IF msg.type_int = SC_INIT_RESPONSE \/ msg.type_int = SC_INIT_REQUEST THEN
    sendRaw(nextMc([S EXCEPT !.handled = TRUE]), Out(SC_INIT_REQUEST, 0))
  ELSE IF msg.type_int = PUBLIC_KEY_RESPONSE THEN
    LET publicKey == getStringField(msg.payload, "public_key")
    IN IF publicKey = 0
         THEN [S EXCEPT !.handled = TRUE]
         ELSE LET S1 == [S EXCEPT !.authenticator.publicKey = publicKey,
                                  !.authenticator.encryptionContext = S.keyCount + 1,
                                  !.keyCount = S.keyCount + 1]
              IN [sendRaw(nextMc(S1), Out(SECRET_EXCHANGE, S.keyCount + 1))
                    EXCEPT !.authenticator.state = "awaiting_secret_ack",
                           !.handled = TRUE]
  ELSE S

\* mutant of onAuthenticated: the room request is left out
onAuthenticated_noRooms(S0) ==
  LET S1 == sendEncryptedMsg(S0, Out(REQUEST_DEVICES, 0))
      S2 == sendEncryptedMsg(S1, Out(HEARTBEAT, 0))
  IN [startHeartbeat(S2) EXCEPT !.watchdogInterval = TRUE]

\* the callback the facade gives to Authenticator.setOnAuthenticated
onAuthenticated(S0) ==
  LET S1 == sendEncryptedMsg(S0, Out(REQUEST_DEVICES, 0))
      S2 == IF S0.facade = "part_022"
              THEN sendEncryptedMsg(S1, Out(REQUEST_ROOMS, 0))
              ELSE S1
      S3 == sendEncryptedMsg(S2, Out(HEARTBEAT, 0))
  IN [startHeartbeat(S3) EXCEPT !.watchdogInterval = TRUE]

\* Authenticator.handleEncryptedMessage
handleEncryptedMessage(S, msg) ==
  IF msg.type_int = SECRET_EXCHANGE_ACK THEN
    IF S.authenticator.deviceId = 0
      THEN [S EXCEPT !.handled = TRUE]
      ELSE [sendEncryptedMsg(S, Out(LOGIN_REQUEST, S.authenticator.deviceId))
              EXCEPT !.authenticator.state = "awaiting_login_response",
                     !.handled = TRUE]
  ELSE IF msg.type_int = LOGIN_RESPONSE THEN
    LET token == getStringField(msg.payload, "token")
    IN IF token = 0
         THEN [S EXCEPT !.handled = TRUE]
         ELSE [sendEncryptedMsg([S EXCEPT !.authenticator.token = token],
                                Out(TOKEN_APPLY, token))
                 EXCEPT !.authenticator.state = "awaiting_token_apply",
                        !.handled = TRUE]
  ELSE IF msg.type_int = TOKEN_APPLY_ACK THEN
    IF ~S.authenticator.isRenewing
      THEN IF S.authenticator.token = 0
             THEN [S EXCEPT !.handled = TRUE]
             ELSE [sendEncryptedMsg([S EXCEPT !.authenticator.isRenewing = TRUE],
                                    Out(TOKEN_RENEW, S.authenticator.token))
                     EXCEPT !.authenticator.state = "awaiting_token_renew",
                            !.handled = TRUE]
      ELSE onAuthenticated([S EXCEPT !.authenticator.state = "authenticated",
                                     !.authenticator.isRenewing = FALSE,
                                     !.handled = TRUE])
  ELSE IF msg.type_int = TOKEN_RENEW_RESPONSE THEN
    LET token == getStringField(msg.payload, "token")
    IN IF token = 0
         THEN [S EXCEPT !.handled = TRUE]
         ELSE [sendEncryptedMsg([S EXCEPT !.authenticator.token = token],
                                Out(TOKEN_APPLY, token))
                 EXCEPT !.handled = TRUE]
  ELSE S


\* ------------------------------------ MessageHandler and DeviceStateManager
\* number of messages the MessageHandler processes in a behaviour
MaxUpdates == 3
\* number of listeners registered for one device
MaxListeners == 1
\* number of listeners registered for one device where the registry is
\* what is looked at
MaxRegistered == 2
\* number of connection attempts in a behaviour of the handler
MaxConnects == 2

\* INFO_TEXT_CODES
TEMPERATURE_STANDARD == "1222"
HUMIDITY_STANDARD == "1223"
TEMPERATURE_DIMMER == "1109"

DeviceIds == {"1", "2"}
\* a key the object does not have
Undef == "undefined"
\* DeviceMetadata {}
NoMetadata == [temperature |-> Undef, humidity |-> Undef]
\* DeviceStateUpdate {} (of its numeric fields dimmvalue stands for power,
\* setpoint, shadsClosed and shSafety, operationMode for tempState)
NoUpdate ==
  [switch |-> Undef, dimmvalue |-> Undef, curstate |-> Undef,
   operationMode |-> Undef, metadata |-> NoMetadata]
\* no entry of the Map devices
NoDevice ==
  [stored |-> FALSE, switch |-> Undef, dimmvalue |-> Undef,
   dimmable |-> Undef, devType |-> Undef]
\* rooms of the RoomStateManager
RoomIds == {"r1"}
\* no entry of the Map rooms; hasDevices is Array.isArray(room.devices)
NoRoom == [stored |-> FALSE, hasDevices |-> FALSE, devices |-> << >>]

\* listener functions of the application; those of Throwing throw
ListenerFns == {"cb1", "cb2"}
Throwing == {"cb2"}
\* no entry of the Map listeners
NoListeners == [present |-> FALSE, callbacks |-> << >>]

\* the MessageHandler and the DeviceStateManager after construction.
\* immediate holds the setImmediate callbacks they have queued; the history
\* fields: received counts the messages processed, connects the connection
\* attempts, discovered the devices of the snapshots of this connection,
\* window the fields received for a device since its last dispatch,
\* refreshed the devices a snapshot has stored while an update of theirs
\* was waiting for its dispatch, invocations the number of listener calls
\* (counted where traced is set)
NewHandler ==
  [devices |-> [d \in DeviceIds |-> NoDevice],
   rooms |-> [r \in RoomIds |-> NoRoom],
   listeners |-> [d \in DeviceIds |-> NoListeners],
   pendingDeviceUpdates |-> [d \in DeviceIds |-> NoUpdate],
   flushTimers |-> << >>,
   immediate |-> << >>,
   received |-> 0,
   connects |-> 0,
   discovered |-> {},
   window |-> [d \in DeviceIds |-> NoUpdate],
   refreshed |-> {},
   traced |-> FALSE,
   invocations |-> 0]

\* DeviceStateManager.setDevice
setDevice(H, device) ==
  [H EXCEPT !.devices[device.deviceId] =
     [stored |-> TRUE, switch |-> device.switch, dimmvalue |-> device.dimmvalue,
      dimmable |-> device.dimmable, devType |-> device.devType]]

\* DeviceStateManager.getDevice: NoDevice for undefined
getDevice(H, deviceId) == H.devices[deviceId]

\* RoomStateManager.getRoom: NoRoom for undefined
getRoom(H, roomId) == H.rooms[roomId]

\* DeviceStateManager.getAllDevices, as the ids of the devices returned
getAllDevices(H) == {d \in DeviceIds : H.devices[d].stored}

\* DeviceStateManager.addListener
addListener(H, deviceId, callback) ==
  [H EXCEPT !.listeners[deviceId] =
     [present |-> TRUE, callbacks |-> Append(@.callbacks, callback)]]

\* Array.prototype.indexOf: 0 for -1
indexOf(array, x) ==
  IF \E k \in 1..Len(array) : array[k] = x
    THEN CHOOSE k \in 1..Len(array) :
           array[k] = x /\ \A j \in 1..(k - 1) : array[j] # x
  ELSE 0

\* Array.prototype.splice(index, 1)
splice(array, index) ==
  SubSeq(array, 1, index - 1) \o SubSeq(array, index + 1, Len(array))

\* DeviceStateManager.removeListener
removeListener(H, deviceId, callback) ==
  LET deviceListeners == H.listeners[deviceId]
      index == indexOf(deviceListeners.callbacks, callback)
  IN  IF ~deviceListeners.present THEN H
      ELSE IF index = 0 THEN H
      ELSE LET rest == splice(deviceListeners.callbacks, index)
           IN  [H EXCEPT !.listeners[deviceId] =
                  IF Len(rest) = 0 THEN NoListeners
                  ELSE [@ EXCEPT !.callbacks = rest]]

RECURSIVE Callbacks(_, _, _)
\* the setImmediate callbacks of deviceListeners.forEach, one per listener
Callbacks(deviceListeners, deviceId, stateData) ==
  IF deviceListeners = << >> THEN << >>
  ELSE <<[kind |-> "callback", deviceId |-> deviceId,
          callback |-> Head(deviceListeners), stateData |-> stateData]>>
       \o Callbacks(Tail(deviceListeners), deviceId, stateData)

\* DeviceStateManager.triggerListeners
triggerListeners(H, deviceId, stateData) ==
  IF ~H.listeners[deviceId].present THEN H
  ELSE [H EXCEPT !.immediate =
          @ \o Callbacks(H.listeners[deviceId].callbacks, deviceId, stateData)]

\* mutant of invoke: the exception of a listener is not caught and ends
\* the process with what it had queued
invoke_uncaught(H, cb) ==
  LET H1 == [H EXCEPT !.invocations = IF H.traced THEN @ + 1 ELSE @]
  IN  IF cb.callback \in Throwing THEN [H1 EXCEPT !.immediate = << >>] ELSE H1

\* the setImmediate callback of triggerListeners: try { callback(id,
\* stateData) } catch { console.error }
invoke(H, cb) == [H EXCEPT !.invocations = IF H.traced THEN @ + 1 ELSE @]

\* switch === true || switch === 1
toBoolean(raw) == IF raw \in {"true", "1"} THEN "true" ELSE "false"

RECURSIVE parseInfoMetadata(_)
\* DeviceStateManager.parseInfoMetadata (parseFloat(String(value)) of a
\* numeric value is the value)
parseInfoMetadata(infoArray) ==
  IF infoArray = << >> THEN NoMetadata
  ELSE LET metadata == parseInfoMetadata(SubSeq(infoArray, 1, Len(infoArray) - 1))
           info == infoArray[Len(infoArray)]
       IN  IF info.text = TEMPERATURE_STANDARD
             THEN [metadata EXCEPT !.temperature = info.value]
           ELSE IF info.text = HUMIDITY_STANDARD
             THEN [metadata EXCEPT !.humidity = info.value]
           ELSE IF info.text = TEMPERATURE_DIMMER
             THEN [metadata EXCEPT !.temperature = info.value]
           ELSE metadata

\* the body of payload.item.forEach in processStateUpdate for one item of a
\* device: deviceUpdate after it
itemUpdate(deviceUpdate, item) ==
  IF item.switch # Undef \/ item.dimmvalue # Undef \/ item.curstate # Undef
  THEN [deviceUpdate EXCEPT
          !.switch = IF item.switch # Undef THEN toBoolean(item.switch)
                     ELSE IF item.curstate \in {"0", "1"}
                       THEN (IF item.curstate = "1" THEN "true" ELSE "false")
                     ELSE @,
          !.dimmvalue = IF item.dimmvalue # Undef THEN item.dimmvalue ELSE @,
          !.curstate = IF item.curstate # Undef THEN item.curstate ELSE @,
          !.operationMode = IF item.operationMode # Undef THEN item.operationMode ELSE @]
  ELSE IF item.info # << >>
  THEN LET metadata == parseInfoMetadata(item.info)
       IN  IF metadata # NoMetadata THEN [deviceUpdate EXCEPT !.metadata = metadata]
           ELSE deviceUpdate
  ELSE deviceUpdate

RECURSIVE deviceUpdatesOf(_)
\* the Map deviceUpdates of processStateUpdate after payload.item.forEach
deviceUpdatesOf(item) ==
  IF item = << >> THEN [d \in DeviceIds |-> NoUpdate]
  ELSE LET last == item[Len(item)]
       IN  [deviceUpdatesOf(SubSeq(item, 1, Len(item) - 1))
              EXCEPT ![last.deviceId] = itemUpdate(@, last)]

RECURSIVE deviceOrder(_)
\* the keys of the Map deviceUpdates in insertion order
deviceOrder(item) ==
  IF item = << >> THEN << >>
  ELSE LET before == deviceOrder(SubSeq(item, 1, Len(item) - 1))
           deviceId == item[Len(item)].deviceId
       IN  IF \E k \in 1..Len(before) : before[k] = deviceId THEN before
           ELSE Append(before, deviceId)

\* { ...pending, ...updateData, metadata: { ...pending.metadata, ...updateData.metadata } }
mergeUpdate(pending, updateData) ==
  [switch |-> IF updateData.switch # Undef THEN updateData.switch ELSE pending.switch,
   dimmvalue |-> IF updateData.dimmvalue # Undef THEN updateData.dimmvalue
                 ELSE pending.dimmvalue,
   curstate |-> IF updateData.curstate # Undef THEN updateData.curstate
                ELSE pending.curstate,
   operationMode |-> IF updateData.operationMode # Undef THEN updateData.operationMode
                     ELSE pending.operationMode,
   metadata |->
     [temperature |-> IF updateData.metadata.temperature # Undef
                        THEN updateData.metadata.temperature
                      ELSE pending.metadata.temperature,
      humidity |-> IF updateData.metadata.humidity # Undef
                     THEN updateData.metadata.humidity
                   ELSE pending.metadata.humidity]]

\* MessageHandler.enqueueDeviceUpdate; flushTimers in the order the
\* timeouts were set, all with the delay UPDATE_COALESCE_MS (150 ms)
enqueueDeviceUpdate(H, deviceId, updateData) ==
  IF updateData = NoUpdate THEN H
  ELSE [H EXCEPT
          !.pendingDeviceUpdates[deviceId] = mergeUpdate(@, updateData),
          !.flushTimers = IF \E k \in 1..Len(@) : @[k] = deviceId THEN @
                          ELSE Append(@, deviceId)]

RECURSIVE enqueueAll(_, _, _)
\* deviceUpdates.forEach(enqueueDeviceUpdate)
enqueueAll(H, order, deviceUpdates) ==
  IF order = << >> THEN H
  ELSE enqueueAll(enqueueDeviceUpdate(H, Head(order), deviceUpdates[Head(order)]),
                  Tail(order), deviceUpdates)

\* MessageHandler.processStateUpdate
processStateUpdate(H, payload) ==
  enqueueAll(H, deviceOrder(payload.item), deviceUpdatesOf(payload.item))

\* the update processDeviceData builds from a device of the snapshot
discoveryUpdate(device) ==
  [NoUpdate EXCEPT
     !.switch = IF device.switch # Undef THEN toBoolean(device.switch) ELSE Undef,
     !.dimmvalue = device.dimmvalue]

RECURSIVE processDevices(_, _)
\* payload.devices.forEach of processDeviceData
processDevices(H, devices) ==
  IF devices = << >> THEN H
  ELSE LET device == Head(devices)
           H1 == setDevice(H, device)
           update == discoveryUpdate(device)
       IN  processDevices(
             IF update # NoUpdate
               THEN [H1 EXCEPT !.immediate =
                       Append(@, [kind |-> "trigger", deviceId |-> device.deviceId,
                                  callback |-> "", stateData |-> update])]
             ELSE H1,
             Tail(devices))

\* MessageHandler.processDeviceData for a payload without lastItem
processDeviceData(H, payload) == processDevices(H, payload.devices)

\* --------------------------------------------------- the bridge's messages
BlankItem(d) ==
  [deviceId |-> d, switch |-> Undef, dimmvalue |-> Undef, curstate |-> Undef,
   operationMode |-> Undef, info |-> << >>]

Temperature == <<[text |-> TEMPERATURE_STANDARD, value |-> "21"]>>
Humidity == <<[text |-> HUMIDITY_STANDARD, value |-> "55"]>>

\* items of a STATE_UPDATE
Items ==
  { [BlankItem("1") EXCEPT !.switch = "1"],
    [BlankItem("1") EXCEPT !.dimmvalue = "40"],
    [BlankItem("1") EXCEPT !.dimmvalue = "80"],
    [BlankItem("1") EXCEPT !.curstate = "0"],
    [BlankItem("1") EXCEPT !.info = Temperature],
    [BlankItem("1") EXCEPT !.info = Humidity],
    [BlankItem("1") EXCEPT !.switch = "true", !.info = Temperature],
    [BlankItem("2") EXCEPT !.dimmvalue = "40"] }

\* payloads of a STATE_UPDATE: one item, or two
StateUpdates ==
  {[item |-> <<i>>] : i \in Items} \cup {[item |-> <<i, j>>] : i, j \in Items}

\* devices of a SET_ALL_DATA
Devices ==
  { [deviceId |-> "1", switch |-> "false", dimmvalue |-> "0",
     dimmable |-> Undef, devType |-> Undef],
    [deviceId |-> "2", switch |-> Undef, dimmvalue |-> Undef,
     dimmable |-> Undef, devType |-> Undef] }

\* payloads of a SET_ALL_DATA that is not the last of the snapshot
Snapshots ==
  {[devices |-> <<d>>] : d \in Devices}
    \cup {[devices |-> <<d, e>>] : d \in {x \in Devices : x.deviceId = "1"},
                                   e \in {x \in Devices : x.deviceId = "2"}}

\* C14: what the updates received for a device add up to, last value
\* winning per field and metadata key by key
C14_Merge(update, item) ==
  mergeUpdate(update,
    [switch |-> IF item.switch # Undef THEN toBoolean(item.switch)
                ELSE IF item.curstate \in {"0", "1"}
                  THEN (IF item.curstate = "1" THEN "true" ELSE "false")
                ELSE Undef,
     dimmvalue |-> item.dimmvalue, curstate |-> item.curstate,
     operationMode |-> item.operationMode,
     metadata |-> parseInfoMetadata(item.info)])

RECURSIVE C14_Window(_, _)
C14_Window(window, item) ==
  IF item = << >> THEN window
  ELSE C14_Window([window EXCEPT ![Head(item).deviceId] = C14_Merge(@, Head(item))],
                  Tail(item))

\* ------------------------------------------------------ handler's actions
\* the application registers a listener (addDeviceStateListener)
AddListener(deviceId, callback, max) ==
  /\ Len(handler.listeners[deviceId].callbacks) < max
  /\ handler' = addListener(handler, deviceId, callback)
  /\ UNCHANGED <<txVars, bridgeVars, bridge, debouncers, sem, frame>>

\* processMessage for a STATE_UPDATE
StateUpdate(payload) ==
  /\ handler.received < MaxUpdates
  /\ handler.connects > 0
  /\ handler' = [processStateUpdate(handler, payload) EXCEPT
                   !.received = @ + 1,
                   !.window = C14_Window(@, payload.item)]
  /\ UNCHANGED <<txVars, bridgeVars, bridge, debouncers, sem, frame>>

\* processMessage for a SET_ALL_DATA
DeviceData(payload) ==
  /\ handler.received < MaxUpdates
  /\ handler.connects > 0
  /\ handler' = [processDeviceData(handler, payload) EXCEPT
                   !.received = @ + 1,
                   !.discovered = @ \cup {payload.devices[k].deviceId :
                                            k \in 1..Len(payload.devices)},
                   !.refreshed = @ \cup {d \in DeviceIds :
                       /\ handler.pendingDeviceUpdates[d] # NoUpdate
                       /\ \E k \in 1..Len(payload.devices) :
                            payload.devices[k].deviceId = d}]
  /\ UNCHANGED <<txVars, bridgeVars, bridge, debouncers, sem, frame>>

\* the timeout enqueueDeviceUpdate has set for the device fires; timers
\* run after the setImmediate callbacks queued before
FlushTimer ==
  /\ handler.flushTimers # << >>
  /\ handler.immediate = << >>
  /\ LET deviceId == Head(handler.flushTimers)
         latest == handler.pendingDeviceUpdates[deviceId]
         H == [handler EXCEPT !.flushTimers = Tail(@),
                              !.window[deviceId] = NoUpdate,
                              !.refreshed = @ \ {deviceId}]
     IN  handler' =
           IF latest # NoUpdate
             THEN triggerListeners([H EXCEPT !.pendingDeviceUpdates[deviceId] = NoUpdate],
                                   deviceId, latest)
           ELSE H
  /\ UNCHANGED <<txVars, bridgeVars, bridge, debouncers, sem, frame>>

\* the application removes a listener (removeDeviceStateListener)
RemoveListener(deviceId, callback) ==
  /\ handler' = removeListener(handler, deviceId, callback)
  /\ UNCHANGED <<txVars, bridgeVars, bridge, debouncers, sem, frame>>

\* the first setImmediate callback of the handler runs
HandlerImmediate ==
  /\ handler.immediate # << >>
  /\ LET cb == Head(handler.immediate)
         H == [handler EXCEPT !.immediate = Tail(@)]
     IN  handler' =
           IF cb.kind = "trigger" THEN triggerListeners(H, cb.deviceId, cb.stateData)
           ELSE invoke(H, cb)
  /\ UNCHANGED <<txVars, bridgeVars, bridge, debouncers, sem, frame>>

\* XComfortBridge.connect of the facade, for what it does to the
\* MessageHandler and the DeviceStateManager: nothing
HandlerConnect ==
  /\ handler.connects < MaxConnects
  /\ handler' = [handler EXCEPT !.connects = @ + 1, !.discovered = {}]
  /\ UNCHANGED <<txVars, bridgeVars, bridge, debouncers, sem, frame>>

\* ------------------------------------------- CommandDebouncer and dimDevice
\* number of dimDevice calls in a behaviour
MaxDims == 3

DEVICE_DIM == 280
DEVICE_SWITCH == 281
DIM_MIN == 1
DIM_MAX == 99

\* no controlRoom call yet
NoResult == [returned |-> "none", type_int |-> "", roomId |-> "", dimmvalue |-> 0]

\* XComfortBridge.dimDebouncers after construction: no entry (0) for any
\* device.  currentRunId holds the field of every CommandDebouncer created
\* so far, timers the run() invocations waiting for their setTimeout, in the
\* order they were set (all with the same delay of 150 ms).  History: issued
\* counts the calls of the control API, commands are the messages the fn of
\* dimDevice has built, result is what the last controlRoom call did.
NewDebouncers ==
  [dimDebouncers |-> [d \in DeviceIds |-> 0],
   currentRunId |-> << >>,
   timers |-> << >>,
   issued |-> 0,
   commands |-> << >>,
   result |-> NoResult]

\* this.dimDebouncers.clear()
clearDebouncers(D) == [D EXCEPT !.dimDebouncers = [d \in DeviceIds |-> 0]]

\* XComfortBridge.dimDevice up to the await of CommandDebouncer.run
dimDevice(D0, deviceId, dimmValue) ==
  LET D == IF D0.dimDebouncers[deviceId] = 0
             THEN [D0 EXCEPT !.currentRunId = Append(@, 0),
                             !.dimDebouncers[deviceId] = Len(D0.currentRunId) + 1]
           ELSE D0
      debouncer == D.dimDebouncers[deviceId]
      myId == D.currentRunId[debouncer] + 1
  IN [D EXCEPT !.currentRunId[debouncer] = myId,
               !.timers = Append(@, [deviceId |-> deviceId, debouncer |-> debouncer,
                                     myId |-> myId, dimmValue |-> dimmValue]),
               !.issued = @ + 1]

\* A number of the application is held in thousandths: Milli(i) is the
\* whole number i.
Milli(i) == i * 1000
isInteger(x) == x % 1000 = 0

\* Math.round(x * 99): the nearest whole number, a half rounded up
roundTimes99(x) == Milli((x * 99 * 2 + 1000) \div 2000)

\* Math.max(DIM_MIN, Math.min(DIM_MAX, targetVal))
clamp(targetVal) ==
  LET least == IF Milli(DIM_MAX) < targetVal THEN Milli(DIM_MAX) ELSE targetVal
  IN  IF Milli(DIM_MIN) > least THEN Milli(DIM_MIN) ELSE least

\* XComfortBridge.switchDevice: the message it hands to sendWithRetry
switchCommand(deviceId, switchState) ==
  [type_int |-> DEVICE_SWITCH, deviceId |-> deviceId,
   value |-> IF switchState THEN Milli(1) ELSE Milli(0)]

\* the fn dimDevice gives to CommandDebouncer.run: the message it hands to
\* sendWithRetry, itself or by switchDevice
dimCommand(deviceId, dimmValue) ==
  LET targetVal == IF dimmValue <= Milli(1) /\ dimmValue > 0
                     THEN roundTimes99(dimmValue)
                   ELSE dimmValue
  IN IF targetVal = 0 THEN switchCommand(deviceId, FALSE)
     ELSE [type_int |-> DEVICE_DIM, deviceId |-> deviceId, value |-> clamp(targetVal)]

\* mutant of isRoomDimmable: a known room with members is dimmable
isRoomDimmable_anyMember(H, roomId) ==
  LET room == getRoom(H, roomId)
  IN  ~(~room.stored \/ ~room.hasDevices \/ Len(room.devices) = 0)

\* XComfortBridge.isRoomDimmable
isRoomDimmable(H, roomId) ==
  LET room == getRoom(H, roomId)
  IN  IF ~room.stored \/ ~room.hasDevices \/ Len(room.devices) = 0 THEN FALSE
      ELSE \E k \in 1..Len(room.devices) :
             LET device == getDevice(H, room.devices[k])
             IN  device.dimmable = "true" \/ device.devType = "101"

\* XComfortBridge.controlRoom(roomId, 'dimm', value) for a number: what it
\* returns, with the message given to sendWithRetry
controlRoom(H, roomId, value) ==
  IF ~isRoomDimmable(H, roomId)
    THEN [NoResult EXCEPT !.returned = "false"]
  ELSE [returned |-> "sendWithRetry", type_int |-> "ROOM_DIM", roomId |-> roomId,
        dimmvalue |-> clamp(value)]

\* values the application dims to
DimValues == {Milli(0), Milli(40), Milli(80)}

\* ------------------------------------------------------------ encryption
\* A string is a sequence of code points, a Buffer a sequence of bytes, a
\* base64 string a sequence of sextets 0..63 with -1 for '=' and -4 for the
\* EOT character.
BLOCK_SIZE == 16

MaxChars == 34

\* Buffer.alloc(n, 0)
alloc(n) == [k \in 1..n |-> 0]

\* the UTF-8 bytes of one code point below 0x10000
utf8(c) ==
  IF c < 128 THEN <<c>>
  ELSE IF c < 2048 THEN <<192 + (c \div 64), 128 + (c % 64)>>
  ELSE <<224 + (c \div 4096), 128 + ((c \div 64) % 64), 128 + (c % 64)>>

\* Buffer.from(str, 'utf8')
RECURSIVE bufferFrom(_)
bufferFrom(str) ==
  IF str = << >> THEN << >> ELSE utf8(Head(str)) \o bufferFrom(Tail(str))

\* buf.toString('utf8') of well-formed UTF-8
RECURSIVE toStringUtf8(_)
toStringUtf8(buf) ==
  IF buf = << >> THEN << >>
  ELSE IF buf[1] < 128 THEN <<buf[1]>> \o toStringUtf8(Tail(buf))
  ELSE IF buf[1] < 224
    THEN <<((buf[1] - 192) * 64) + (buf[2] - 128)>> \o toStringUtf8(SubSeq(buf, 3, Len(buf)))
  ELSE <<((buf[1] - 224) * 4096) + ((buf[2] - 128) * 64) + (buf[3] - 128)>>
         \o toStringUtf8(SubSeq(buf, 4, Len(buf)))

\* buf.toString('base64')
RECURSIVE toBase64(_)
toBase64(buf) ==
  IF buf = << >> THEN << >>
  ELSE IF Len(buf) = 1 THEN <<buf[1] \div 4, (buf[1] % 4) * 16, -1, -1>>
  ELSE IF Len(buf) = 2
    THEN <<buf[1] \div 4, ((buf[1] % 4) * 16) + (buf[2] \div 16), (buf[2] % 16) * 4, -1>>
  ELSE <<buf[1] \div 4, ((buf[1] % 4) * 16) + (buf[2] \div 16),
         ((buf[2] % 16) * 4) + (buf[3] \div 64), buf[3] % 64>>
         \o toBase64(SubSeq(buf, 4, Len(buf)))

\* Buffer.from(str, 'base64') of a base64 string without foreign characters
RECURSIVE fromBase64(_)
fromBase64(str) ==
  IF Len(str) < 4 THEN << >>
  ELSE LET b1 == (str[1] * 4) + (str[2] \div 16)
           b2 == ((str[2] % 16) * 16) + (str[3] \div 4)
           b3 == ((str[3] % 4) * 64) + str[4]
       IN IF str[3] = -1 THEN <<b1>>
          ELSE IF str[4] = -1 THEN <<b1, b2>>
          ELSE <<b1, b2, b3>> \o fromBase64(SubSeq(str, 5, Len(str)))

\* the block cipher of crypto under a key: a permutation of the blocks
\* (here the bytes are rotated by one place and shifted by the key)
blockEncrypt(block, key) ==
  [k \in 1..BLOCK_SIZE |-> (block[(k % BLOCK_SIZE) + 1] + key) % 256]

\* its inverse
blockDecrypt(block, key) ==
  [k \in 1..BLOCK_SIZE |-> (block[((k + BLOCK_SIZE - 2) % BLOCK_SIZE) + 1] + 256 - key) % 256]

\* the chaining of CBC, with addition modulo 256 in the place of XOR
chain(block, prev) == [k \in 1..BLOCK_SIZE |-> (block[k] + prev[k]) % 256]

unchain(block, prev) == [k \in 1..BLOCK_SIZE |-> (block[k] + 256 - prev[k]) % 256]

\* cipher.update(data) and cipher.final() of createCipheriv('aes-256-cbc',
\* key, iv) with setAutoPadding(false), on whole blocks; prev is the iv
RECURSIVE cipherUpdate(_, _, _)
cipherUpdate(data, key, prev) ==
  IF Len(data) < BLOCK_SIZE THEN << >>
  ELSE LET out == blockEncrypt(chain(SubSeq(data, 1, BLOCK_SIZE), prev), key)
       IN out \o cipherUpdate(SubSeq(data, BLOCK_SIZE + 1, Len(data)), key, out)

\* decipher.update(data) and decipher.final() of createDecipheriv
RECURSIVE decipherUpdate(_, _, _)
decipherUpdate(data, key, prev) ==
  IF Len(data) < BLOCK_SIZE THEN << >>
  ELSE LET block == SubSeq(data, 1, BLOCK_SIZE)
       IN unchain(blockDecrypt(block, key), prev)
            \o decipherUpdate(SubSeq(data, BLOCK_SIZE + 1, Len(data)), key, block)

\* a 16-byte iv
ivBlock(iv) == [k \in 1..BLOCK_SIZE |-> (iv * k) % 256]

\* mutant of zeroPad: no padding for a payload that fills its last block
zeroPad_toBoundary(payloadBuffer) ==
  LET paddingLength == (BLOCK_SIZE - (Len(payloadBuffer) % BLOCK_SIZE)) % BLOCK_SIZE
  IN payloadBuffer \o alloc(paddingLength)

\* the zero padding of Encryption.encryptMessage; sendEncrypted computes the
\* same buffer by Buffer.alloc(length + padLength, 0) and copy
zeroPad(payloadBuffer) ==
  LET paddingLength == BLOCK_SIZE - (Len(payloadBuffer) % BLOCK_SIZE)
  IN payloadBuffer \o alloc(paddingLength)

\* Encryption.encryptMessage
encryptMessage(payload, key, iv) ==
  toBase64(cipherUpdate(zeroPad(bufferFrom(payload)), key, ivBlock(iv))) \o <<-4>>

\* the frame ConnectionManager.sendEncrypted gives to ws.send
sendEncryptedFrame(payloadStr, key, iv) ==
  LET dataToEncrypt == zeroPad(bufferFrom(payloadStr))
      encrypted == toBase64(cipherUpdate(dataToEncrypt, key, ivBlock(iv)))
  IN encrypted \o <<-4>>

\* the removal of the EOT character before decryption
stripEot(rawStr) ==
  IF rawStr # << >> /\ rawStr[Len(rawStr)] = -4
    THEN SubSeq(rawStr, 1, Len(rawStr) - 1)
    ELSE rawStr

\* the loop of Encryption.decryptMessage: while (end > 0 && decrypted[end - 1] === 0) end--
RECURSIVE stripEnd(_)
stripEnd(decrypted) ==
  IF decrypted # << >> /\ decrypted[Len(decrypted)] = 0
    THEN stripEnd(SubSeq(decrypted, 1, Len(decrypted) - 1))
    ELSE decrypted

\* Encryption.decryptMessage
decryptMessage(encryptedBase64, key, iv) ==
  LET decrypted == decipherUpdate(fromBase64(encryptedBase64), key, ivBlock(iv))
  IN toStringUtf8(stripEnd(decrypted))

\* ConnectionManager.decryptMessage: toString('utf8').replace(/\x00+$/, '')
managerDecryptMessage(encryptedBase64, key, iv) ==
  LET encryptedBuf == LET buf == fromBase64(encryptedBase64)
                      IN IF Len(buf) % BLOCK_SIZE # 0
                           THEN buf \o alloc(BLOCK_SIZE - (Len(buf) % BLOCK_SIZE))
                           ELSE buf
      decryptedBuf == decipherUpdate(encryptedBuf, key, ivBlock(iv))
  IN stripEnd(toStringUtf8(decryptedBuf))

\* no frame has been built
NoFrame ==
  [stage |-> "none", payload |-> << >>, key |-> 0, iv |-> 0, wire |-> << >>,
   padded |-> << >>, out |-> << >>]

\* ------------------------------------- state updates of devices and rooms
\* state-update batches the model delivers
MaxBatches == 2
\* advances of the clock between them
MaxAdvances == 2

THROTTLE_MS == 150

\* Date.now() when the handler is constructed
Epoch == 10 * THROTTLE_MS

\* the MessageHandler with a RoomStateManager; the history fields: now is
\* the clock, payload the batch processed last, deviceCalls and roomCalls
\* the calls of triggerListeners that batch made (synthetic marks those of
\* the propagation), batches and advances count the steps
NewRoomHandler(revision, rooms) ==
  [revision |-> revision,
   rooms |-> rooms,
   lastDeviceUpdateAt |-> [d \in DeviceIds |-> 0],
   lastRoomUpdateAt |-> [r \in RoomIds |-> 0],
   now |-> Epoch,
   payload |-> << >>,
   deviceCalls |-> << >>,
   roomCalls |-> << >>,
   batches |-> 0,
   advances |-> 0]

\* no entry of the Maps deviceUpdates and roomUpdates
NoEntry == [present |-> FALSE, switch |-> Undef, dimmvalue |-> Undef]

\* keys of the Map deviceUpdates: a number and the string of its digits are
\* different keys
MapKeys == {"number", "string"} \X DeviceIds
\* an item without deviceId
NoKey == <<Undef, Undef>>

NoUpdates ==
  [deviceUpdates |-> [k \in MapKeys |-> NoEntry],
   roomUpdates |-> [r \in RoomIds |-> NoEntry]]

\* String(x)
String(id) == <<"string", id[2]>>

\* the device branch of the forEach over payload.item, later revision
deviceItemThrottled(H, U, item) ==
  LET deviceId == String(item.deviceId)
      lastTs   == H.lastDeviceUpdateAt[deviceId[2]]
  IN  IF H.now - lastTs < THROTTLE_MS THEN [H |-> H, U |-> U]
      ELSE LET old == U.deviceUpdates[deviceId]
               sw  == IF item.switch # Undef THEN toBoolean(item.switch) ELSE old.switch
               dv  == IF item.dimmvalue # Undef THEN item.dimmvalue ELSE old.dimmvalue
           IN  [H |-> [H EXCEPT !.lastDeviceUpdateAt[deviceId[2]] = H.now],
                U |-> [U EXCEPT !.deviceUpdates[deviceId] =
                         [present |-> TRUE, switch |-> sw, dimmvalue |-> dv]]]

\* the room branch, later revision
roomItemThrottled(H, U, item) ==
  LET roomId == item.roomId
      lastTs == H.lastRoomUpdateAt[roomId]
  IN  IF H.now - lastTs < THROTTLE_MS THEN [H |-> H, U |-> U]
      ELSE [H |-> [H EXCEPT !.lastRoomUpdateAt[roomId] = H.now],
            U |-> [U EXCEPT !.roomUpdates[roomId] =
                     [present |-> TRUE,
                      switch |-> IF item.switch # Undef THEN toBoolean(item.switch)
                                 ELSE Undef,
                      dimmvalue |-> item.dimmvalue]]]

\* the device branch, earlier revision: the Map is keyed by item.deviceId
\* as it was parsed
deviceItemEarlier(H, U, item) ==
  LET old == U.deviceUpdates[item.deviceId]
      mapped == item.switch # Undef \/ item.dimmvalue # Undef
  IN  [H |-> H,
       U |-> [U EXCEPT !.deviceUpdates[item.deviceId] =
                [present |-> TRUE,
                 switch |-> IF mapped THEN item.switch ELSE old.switch,
                 dimmvalue |-> IF mapped THEN item.dimmvalue ELSE old.dimmvalue]]]

\* the room branch, earlier revision
roomItemEarlier(H, U, item) ==
  [H |-> H,
   U |-> [U EXCEPT !.roomUpdates[item.roomId] =
            [present |-> TRUE, switch |-> item.switch, dimmvalue |-> item.dimmvalue]]]

\* payload.item.forEach
RECURSIVE forEachItem(_, _, _)
forEachItem(H, U, items) ==
  IF items = << >> THEN [H |-> H, U |-> U]
  ELSE LET item == Head(items)
           step == IF item.deviceId # NoKey
                     THEN IF H.revision = "earlier" THEN deviceItemEarlier(H, U, item)
                          ELSE deviceItemThrottled(H, U, item)
                   ELSE IF item.roomId # Undef
                     THEN IF H.revision = "earlier" THEN roomItemEarlier(H, U, item)
                          ELSE roomItemThrottled(H, U, item)
                   ELSE [H |-> H, U |-> U]
       IN  forEachItem(step.H, step.U, Tail(items))

\* a sequence of the elements of a set, in the order of CHOOSE
RECURSIVE SeqOf(_)
SeqOf(S) ==
  IF S = {} THEN << >>
  ELSE LET x == CHOOSE y \in S : TRUE IN <<x>> \o SeqOf(S \ {x})

\* deviceUpdates.forEach(triggerListeners)
deviceDispatch(U) ==
  LET keys == SeqOf({k \in MapKeys : U.deviceUpdates[k].present})
  IN  [i \in 1..Len(keys) |->
         [deviceId |-> keys[i], switch |-> U.deviceUpdates[keys[i]].switch,
          dimmvalue |-> U.deviceUpdates[keys[i]].dimmvalue, synthetic |-> FALSE]]

\* room.devices.forEach of the propagation: a member whose String(devId)
\* is a key of deviceUpdates is skipped
propagate(H, U, roomId) ==
  LET room == getRoom(H, roomId)
      updateData == U.roomUpdates[roomId]
  IN  IF updateData.switch = Undef \/ ~room.stored \/ ~room.hasDevices THEN << >>
      ELSE LET calls ==
                 [i \in 1..Len(room.devices) |->
                    [deviceId |-> String(<<"string", room.devices[i]>>),
                     switch |-> updateData.switch, dimmvalue |-> Undef,
                     synthetic |-> TRUE]]
           IN  SelectSeq(calls, LAMBDA c : ~U.deviceUpdates[c.deviceId].present)

\* roomUpdates.forEach: the room's listeners, then the propagation
RECURSIVE roomDispatch(_, _, _)
roomDispatch(H, U, roomIds) ==
  IF roomIds = << >> THEN [roomCalls |-> << >>, deviceCalls |-> << >>]
  ELSE LET roomId == Head(roomIds)
           rest   == roomDispatch(H, U, Tail(roomIds))
       IN  [roomCalls |->
              <<[roomId |-> roomId, switch |-> U.roomUpdates[roomId].switch,
                 dimmvalue |-> U.roomUpdates[roomId].dimmvalue]>> \o rest.roomCalls,
            deviceCalls |-> propagate(H, U, roomId) \o rest.deviceCalls]

\* MessageHandler.processStateUpdate of the handler with rooms
processRoomStateUpdate(H0, payload) ==
  LET each == forEachItem(H0, NoUpdates, payload)
      H    == each.H
      U    == each.U
      rooms == roomDispatch(H, U, SeqOf({r \in RoomIds : U.roomUpdates[r].present}))
  IN  [H EXCEPT !.payload = payload,
                !.deviceCalls = deviceDispatch(U) \o rooms.deviceCalls,
                !.roomCalls = rooms.roomCalls,
                !.batches = @ + 1]
\* ------------------------------------------------------ facade XComfortBridge
\* XComfortBridge.clearConnectionTimers
clearConnectionTimers(S) ==
  [S EXCEPT !.connectionCheckInterval = FALSE, !.connectionTimeout = FALSE]

\* XComfortBridge.stopWatchdog
stopWatchdog(S) == [S EXCEPT !.watchdogInterval = FALSE]

RECURSIVE pow2(_)
\* Math.pow(2, n) for n >= 0
pow2(n) == IF n = 0 THEN 1 ELSE 2 * pow2(n - 1)

\* mutant of backoff: the delay is not capped
backoff_uncapped(attempt, closeCode) ==
  LET baseDelay == IF closeCode = ABNORMAL_CLOSURE THEN 500 ELSE RECONNECT_DELAY
      exponent == IF attempt - 1 > 0 THEN attempt - 1 ELSE 0
  IN baseDelay * pow2(exponent)

\* the delay scheduleReconnect computes for the attempt
backoff(attempt, closeCode) ==
  LET baseDelay == IF closeCode = ABNORMAL_CLOSURE THEN 500 ELSE RECONNECT_DELAY
      exponent == IF attempt - 1 > 0 THEN attempt - 1 ELSE 0
      delay == baseDelay * pow2(exponent)
  IN IF delay < MAX_RECONNECT_DELAY THEN delay ELSE MAX_RECONNECT_DELAY

\* mutant of scheduleReconnect: a reconnect is scheduled over a pending one
scheduleReconnect_unguarded(S) ==
  IF ~S.allowReconnect THEN S
  ELSE [S EXCEPT !.reconnecting = TRUE,
                 !.reconnectAttempt = @ + 1,
                 !.reconnectDelay = backoff(S.reconnectAttempt + 1, S.lastCloseCode),
                 !.reconnectTimer = TRUE]

\* XComfortBridge.scheduleReconnect
scheduleReconnect(S) ==
  IF ~S.allowReconnect THEN S
  ELSE IF S.reconnecting THEN S
  ELSE [S EXCEPT !.reconnecting = TRUE,
                 !.reconnectAttempt = @ + 1,
                 !.reconnectDelay = backoff(S.reconnectAttempt + 1, S.lastCloseCode),
                 !.reconnectTimer = TRUE]

\* the callback the facade gives to ConnectionManager.setOnClose
onClose(S0, code, shouldReconnect) ==
  LET S == [S0 EXCEPT !.lastCloseCode = code]
  IN IF shouldReconnect /\ S.allowReconnect THEN scheduleReconnect(S) ELSE S

\* the 'close' handler installed by ConnectionManager.connect
closeHandler(S0, code) ==
  LET S == clearPendingAcks(MarkHit(S0, TRUE))
      shouldReconnect == S.connectionEstablished /\ ~S.reconnecting
  IN onClose([S EXCEPT !.encryptionContext = 0], code, shouldReconnect)

\* close codes of the socket
CloseCodes == {1000, ABNORMAL_CLOSURE}

\* mutant of facadeCleanup: the reconnect timer is left armed
facadeCleanup_keepsReconnectTimer(S0) ==
  LET S == managerCleanup(stopWatchdog(clearConnectionTimers(S0)))
  IN [S EXCEPT !.reconnecting = FALSE,
               !.reconnectAttempt = 0,
               !.reconnectDelay = 0,
               !.debouncers = IF S.facade = "part_021" THEN clearDebouncers(@) ELSE @]

\* XComfortBridge.cleanup
facadeCleanup(S0) ==
  LET S == managerCleanup([stopWatchdog(clearConnectionTimers(S0))
                             EXCEPT !.reconnectTimer = FALSE])
  IN [S EXCEPT !.reconnecting = FALSE,
               !.reconnectAttempt = 0,
               !.reconnectDelay = 0,
               !.debouncers = IF S.facade = "part_021" THEN clearDebouncers(@) ELSE @]

\* XComfortBridge.disconnect
disconnectIn(S) == facadeCleanup([S EXCEPT !.allowReconnect = FALSE])

\* reject(...) of the promise of XComfortBridge.connect: the reconnect
\* timer's .catch schedules another attempt, init() passes the error on
rejectConnect(S) ==
  IF S.connectCaller = "reconnect"
    THEN scheduleReconnect([S EXCEPT !.connectCaller = "none"])
    ELSE [S EXCEPT !.connectCaller = "none"]

\* mutant of resolveConnect: the .then leaves the attempt counter
resolveConnect_keepsAttempt(S) == [S EXCEPT !.connectCaller = "none"]

\* resolve() of the promise of XComfortBridge.connect: the reconnect
\* timer's .then resets the attempt counter
resolveConnect(S) ==
  IF S.connectCaller = "reconnect"
    THEN [S EXCEPT !.connectCaller = "none", !.reconnectAttempt = 0]
    ELSE [S EXCEPT !.connectCaller = "none"]

\* XComfortBridge.connect with ConnectionManager.connect: a new socket
connect(S0, caller) ==
  LET S == clearConnectionTimers(S0)
  IN [S EXCEPT !.deviceListReceived = FALSE,
               !.authenticator = AuthReset,
               !.mc = 0,
               !.ws = "connecting",
               !.connectionCheckInterval = TRUE,
               !.connectionTimeout = TRUE,
               !.connectCaller = caller,
               !.oldKeys = S.keyCount,
               !.scenario = NewScenario]

\* the setTimeout callback of XComfortBridge.scheduleReconnect
reconnectTimerCallback(S) ==
  connect([S EXCEPT !.reconnectTimer = FALSE, !.reconnecting = FALSE], "reconnect")

\* setImmediate(callback)
setImmediate(S, callback) == [S EXCEPT !.immediate = Append(S.immediate, callback)]

\* XComfortBridge.handleEncryptedMessage.  The acknowledgement of the
\* message (sent at once or by a setImmediate callback) changes no state.
\* MessageHandler.processMessage is deferred by setImmediate; of its work
\* the state here holds the effect of a SET_ALL_DATA with lastItem, which
\* calls onDeviceListComplete.
facadeHandleEncryptedMessage(S, msg) ==
  LET R == handleEncryptedMessage(S, msg)
  IN IF R.handled THEN R
     ELSE IF msg.type_int = SET_ALL_DATA /\ msg.payload.lastItem = 1
       THEN setImmediate(R, "deviceListComplete")
       ELSE R

\* XComfortBridge.handleRawMessage.  msg.key = 0: a plain JSON frame;
\* msg.key = k: a frame encrypted with context k, which decryptMessage and
\* JSON.parse turn into a message only with that context
handleRawMessage(S0, msg) ==
  LET S == markMessageReceived(S0)
  IN IF msg.key = 0
       THEN IF msg.type_int = CONNECTION_DECLINED
              THEN disconnectIn(S)
              ELSE LET R == handleUnencryptedMessage(S, msg)
                   IN IF R.handled /\ R.authenticator.encryptionContext # 0
                        THEN [R EXCEPT !.encryptionContext = R.authenticator.encryptionContext]
                        ELSE R
       ELSE IF S.authenticator.encryptionContext # 0 /\ S.encryptionContext = msg.key
              THEN facadeHandleEncryptedMessage(S, msg)
              ELSE S

\* maxSilenceMs of startWatchdog
maxSilenceMs == TIMEOUTS_HEARTBEAT * 3

\* mutant of watchdog: the silent connection is left as it is
watchdog_keepsSocket(S) ==
  IF ~isConnectedIn(S) THEN S
  ELSE IF sinceLastMessage(S) > maxSilenceMs
    THEN scheduleReconnect(S)
  ELSE IF ~isHeartbeatRunning(S) THEN restartHeartbeat(S)
  ELSE S

\* the setInterval callback of XComfortBridge.startWatchdog
watchdog(S) ==
  IF ~isConnectedIn(S) THEN S
  ELSE IF sinceLastMessage(S) > maxSilenceMs
    THEN scheduleReconnect(managerCleanup(S))
  ELSE IF ~isHeartbeatRunning(S) THEN restartHeartbeat(S)
  ELSE S

\* ------------------------------------------------------- inbound messages
NoPayload ==
  [device_id |-> 0, connection_id |-> 0, public_key |-> 0, token |-> 0, lastItem |-> 0]

Payloads(t) ==
  IF t = CONNECTION_START
    THEN {[NoPayload EXCEPT !.device_id = d, !.connection_id = c] : d \in 0..1, c \in 0..1}
  ELSE IF t = PUBLIC_KEY_RESPONSE
    THEN {[NoPayload EXCEPT !.public_key = k] : k \in 0..1}
  ELSE IF t = LOGIN_RESPONSE \/ t = TOKEN_RENEW_RESPONSE
    THEN {[NoPayload EXCEPT !.token = k] : k \in 0..2}
  ELSE IF t = SET_ALL_DATA
    THEN {[NoPayload EXCEPT !.lastItem = k] : k \in 0..1}
  ELSE {NoPayload}

InboundTypes ==
  {CONNECTION_START, SC_INIT_RESPONSE, CONNECTION_DECLINED,
   SC_INIT_REQUEST, PUBLIC_KEY_RESPONSE, SECRET_EXCHANGE_ACK, LOGIN_RESPONSE,
   TOKEN_APPLY_ACK, TOKEN_RENEW_RESPONSE, SET_ALL_DATA}

\* the frames the peer can send when keys contexts have been generated
Inbound(keys) ==
  UNION {{[type_int |-> t, key |-> k, payload |-> p]
          : k \in 0..keys, p \in Payloads(t)} : t \in InboundTypes}

\* history: the handshake of section 4.2 of the specification, message by message
ScenarioTypes ==
  <<CONNECTION_START, SC_INIT_RESPONSE, PUBLIC_KEY_RESPONSE, SECRET_EXCHANGE_ACK,
    LOGIN_RESPONSE, TOKEN_APPLY_ACK, TOKEN_RENEW_RESPONSE, TOKEN_APPLY_ACK>>

\* history: msg, received in state S, is the next message of the handshake
NextOfScenario(S, msg) ==
  LET k == Len(S.scenario.inLog) + 1
  IN /\ S.scenario.on
     /\ k <= Len(ScenarioTypes)
     /\ msg.type_int = ScenarioTypes[k]
     /\ IF k <= 3 THEN msg.key = 0
                  ELSE msg.key # 0 /\ msg.key = S.encryptionContext
     /\ msg.type_int = CONNECTION_START =>
          msg.payload.device_id # 0 /\ msg.payload.connection_id # 0
     /\ msg.type_int = PUBLIC_KEY_RESPONSE => msg.payload.public_key # 0
     /\ msg.type_int \in {LOGIN_RESPONSE, TOKEN_RENEW_RESPONSE} => msg.payload.token # 0

\* the peer follows the protocol: it sends the next message of the handshake
\* and, after the handshake, the end of the device list
FollowsProtocol(S, msg) ==
  \/ NextOfScenario(S, msg)
  \/ /\ S.scenario.on /\ Len(S.scenario.inLog) = Len(ScenarioTypes)
     /\ msg.type_int = SET_ALL_DATA /\ msg.payload.lastItem = 1
     /\ msg.key # 0 /\ msg.key = S.encryptionContext

\* msg is a handshake or login message without a field its handler reads
\* with getStringField
Malformed(msg) ==
  \/ /\ msg.type_int = CONNECTION_START
     /\ (msg.payload.device_id = 0 \/ msg.payload.connection_id = 0)
  \/ msg.type_int = PUBLIC_KEY_RESPONSE /\ msg.payload.public_key = 0
  \/ msg.type_int \in {LOGIN_RESPONSE, TOKEN_RENEW_RESPONSE} /\ msg.payload.token = 0

\* history: the log of the handshake after msg has been handled
Logged(S0, S, msg) ==
  IF NextOfScenario(S0, msg)
    THEN [S EXCEPT !.scenario.inLog = Append(S0.scenario.inLog, msg),
                   !.scenario.sentLog = S0.scenario.sentLog \o S.sent]
    ELSE [S EXCEPT !.scenario =
            [on |-> FALSE, inLog |-> << >>, sentLog |-> << >>,
             snapshot |-> S0.scenario.snapshot \/ Len(S.immediate) > Len(S0.immediate),
             ignored |-> S0.scenario.ignored \/ Malformed(msg)]]


\* ------------------------------- XComfortBridge of lib/connection/Bridge.ts
\* The fields after construction.  socket is this.socket with its
\* readyState ("closing" after close() or terminate()); orphans counts the
\* sockets the object no longer refers to, whose handlers still run;
\* timers counts the pending setTimeout callbacks.  The message counter and
\* the heartbeat interval (ping and HEARTBEAT only) are left out: no
\* handler reads them.  History: tokenless counts the login responses
\* without a token received in a row since connect(), up to 3; logins
\* counts the LOGIN requests sent since connect(), up to 3; authFailed,
\* auth_failed was emitted since connect().
NewBridge ==
  [socket |-> "null",
   orphans |-> [connecting |-> 0, open |-> 0, closing |-> 0],
   state |-> "DISCONNECTED", bridgeDeviceId |-> 0, token |-> 0,
   isRenewing |-> FALSE, loginAttempts |-> 0, manualDisconnect |-> FALSE,
   reconnectTimer |-> FALSE,
   timers |-> [login |-> 0, startSecureHandshake |-> 0, requestDevices |-> 0],
   logins |-> 0, tokenless |-> 0, authFailed |-> FALSE]

\* history counters stop at 3
UpTo3(n) == IF n < 3 THEN n + 1 ELSE 3

\* the sockets that exist
LiveSockets(B) ==
  (IF B.socket = "null" THEN 0 ELSE 1)
    + B.orphans.connecting + B.orphans.open + B.orphans.closing

\* the setTimeout callbacks that are pending
PendingTimers(B) ==
  B.timers.login + B.timers.startSecureHandshake + B.timers.requestDevices

\* setTimeout(callback)
setTimeout(B, callback) == [B EXCEPT !.timers[callback] = @ + 1]

\* XComfortBridge.sendMessage
sendMessage(B, type) ==
  IF B.socket # "open" THEN B
  ELSE [B EXCEPT !.logins = IF type = LOGIN THEN UpTo3(@) ELSE @]

\* socket.terminate() and this.socket = null
dropSocket(B) ==
  IF B.socket = "null" THEN B
  ELSE [B EXCEPT !.socket = "null", !.orphans.closing = @ + 1]

\* XComfortBridge.clearReconnectTimer
clearReconnectTimer(B) == [B EXCEPT !.reconnectTimer = FALSE]

\* XComfortBridge.disconnect
bridgeDisconnect(B) ==
  dropSocket(clearReconnectTimer([B EXCEPT !.state = "DISCONNECTED",
                                           !.manualDisconnect = TRUE]))

\* XComfortBridge.scheduleReconnect
bridgeScheduleReconnect(B) ==
  IF B.manualDisconnect THEN B
  ELSE IF B.reconnectTimer THEN B
  ELSE [B EXCEPT !.reconnectTimer = TRUE]

\* XComfortBridge.connect
bridgeConnect(B0) ==
  LET B == [B0 EXCEPT !.loginAttempts = 0, !.manualDisconnect = FALSE,
                      !.isRenewing = FALSE, !.token = 0, !.bridgeDeviceId = 0,
                      !.logins = 0, !.tokenless = 0, !.authFailed = FALSE]
      B1 == IF B.state # "DISCONNECTED" /\ B.socket # "null"
              THEN [B EXCEPT !.orphans.closing = @ + 1]
              ELSE IF B.socket # "null"
                     THEN [B EXCEPT !.orphans[B.socket] = @ + 1]
                     ELSE B
  IN [B1 EXCEPT !.state = "CONNECTING", !.socket = "connecting"]

\* XComfortBridge.login
login(B) ==
  IF B.bridgeDeviceId = 0 THEN B
  ELSE [sendMessage(B, LOGIN) EXCEPT !.state = "AUTHENTICATING"]

\* XComfortBridge.retryLoginOrFail
retryLoginOrFail(B0) ==
  LET B == [B0 EXCEPT !.loginAttempts = @ + 1]
  IN IF B.loginAttempts > 2
       THEN bridgeDisconnect([B EXCEPT !.state = "DISCONNECTED", !.authFailed = TRUE])
       ELSE setTimeout(B, "login")

\* XComfortBridge.startSecureHandshake
startSecureHandshake(B) == [sendMessage(B, SC_INIT) EXCEPT !.state = "SECURE_INIT_SENT"]

\* XComfortBridge.handlePublicKey; public_key 2 is a key
\* Encryption.encryptSessionKeys throws on
handlePublicKey(B, payload) ==
  IF payload.public_key = 0 \/ payload.device_id = 0 THEN B
  ELSE IF payload.public_key = 2 THEN bridgeDisconnect(B)
  ELSE [sendMessage(B, SC_CLIENT_KEY) EXCEPT !.state = "KEY_EXCHANGE_SENT"]

\* XComfortBridge.requestDevicesAfterAuth
requestDevicesAfterAuth(B) == setTimeout(B, "requestDevices")

\* XComfortBridge.handleProtocolMessage.
\* Its acknowledgement (sendMessage(ACK) in a setImmediate callback) changes
\* no field.
handleProtocolMessage(B, msg) ==
  IF msg.type_int = HELLO THEN
    IF msg.payload.device_id = 0 THEN B
    ELSE [sendMessage([B EXCEPT !.bridgeDeviceId = msg.payload.device_id], HELLO_CONFIRM)
            EXCEPT !.state = "CONNECTED_UNSECURE"]
  ELSE IF msg.type_int = CONNECTION_ESTABLISHED THEN
    setTimeout(B, "startSecureHandshake")
  ELSE IF msg.type_int = CONNECTION_DECLINED THEN
    IF B.socket = "null" THEN B ELSE [B EXCEPT !.socket = "closing"]
  ELSE IF msg.type_int = SC_PUBLIC_KEY THEN
    handlePublicKey(B, msg.payload)
  ELSE IF msg.type_int = SC_ACK THEN
    setTimeout([B EXCEPT !.state = "SECURE_SESSION"], "login")
  ELSE IF msg.type_int = LOGIN_OK THEN
    retryLoginOrFail([B EXCEPT !.tokenless = UpTo3(@)])
  ELSE IF msg.type_int = LOGIN_RESPONSE THEN
    IF msg.payload.token # 0
      THEN sendMessage([B EXCEPT !.token = msg.payload.token, !.tokenless = 0],
                       TOKEN_APPLY)
      ELSE retryLoginOrFail([B EXCEPT !.tokenless = UpTo3(@)])
  ELSE IF msg.type_int = TOKEN_APPLY_ACK THEN
    IF ~B.isRenewing
      THEN sendMessage([B EXCEPT !.isRenewing = TRUE], TOKEN_RENEW)
      ELSE requestDevicesAfterAuth([B EXCEPT !.state = "AUTHENTICATED",
                                             !.isRenewing = FALSE])
  ELSE IF msg.type_int = TOKEN_RENEW_RESPONSE THEN
    IF msg.payload.token # 0
      THEN sendMessage([B EXCEPT !.token = msg.payload.token], TOKEN_APPLY)
      ELSE B
  ELSE B

\* the messages the peer can send to the monolith
BridgePayloads(t) ==
  IF t = HELLO
    THEN {[NoPayload EXCEPT !.device_id = d] : d \in 0..1}
  ELSE IF t = SC_PUBLIC_KEY
    THEN {[NoPayload EXCEPT !.public_key = k, !.device_id = d] : k \in 0..2, d \in 0..1}
  ELSE IF t = LOGIN_RESPONSE \/ t = TOKEN_RENEW_RESPONSE
    THEN {[NoPayload EXCEPT !.token = k] : k \in 0..1}
  ELSE {NoPayload}

BridgeInboundTypes ==
  {HELLO, CONNECTION_ESTABLISHED, CONNECTION_DECLINED, SC_PUBLIC_KEY, SC_ACK,
   LOGIN_OK, LOGIN_RESPONSE, TOKEN_APPLY_ACK, TOKEN_RENEW_RESPONSE}

BridgeInbound ==
  UNION {{[type_int |-> t, payload |-> p] : p \in BridgePayloads(t)}
         : t \in BridgeInboundTypes}

\* ------------------------------------------------- actions of the monolith
\* XComfortBridge.connect, called by the application
BridgeConnect ==
  /\ LiveSockets(bridge) < MaxSockets
  /\ bridge' = bridgeConnect(bridge)
  /\ UNCHANGED <<txVars, bridgeVars, otherVars>>

\* XComfortBridge.disconnect, called by the application
BridgeDisconnect ==
  /\ bridge' = bridgeDisconnect(bridge)
  /\ UNCHANGED <<txVars, bridgeVars, otherVars>>

\* the reconnect timer fires (setTimeout in scheduleReconnect)
BridgeReconnectTimer ==
  /\ bridge.reconnectTimer
  /\ LiveSockets(bridge) < MaxSockets
  /\ bridge' = bridgeConnect([bridge EXCEPT !.reconnectTimer = FALSE])
  /\ UNCHANGED <<txVars, bridgeVars, otherVars>>

\* 'open' of the socket this.socket refers to (orphan = FALSE) or of a
\* socket it no longer refers to
BridgeSocketOpen(orphan) ==
  /\ IF orphan THEN bridge.orphans.connecting > 0 ELSE bridge.socket = "connecting"
  /\ bridge' = IF orphan
                 THEN [bridge EXCEPT !.orphans.connecting = @ - 1,
                                     !.orphans.open = @ + 1,
                                     !.state = "WAITING_FOR_HELLO"]
                 ELSE [bridge EXCEPT !.socket = "open", !.state = "WAITING_FOR_HELLO"]
  /\ UNCHANGED <<txVars, bridgeVars, otherVars>>

\* 'close' of a socket: of this.socket (status = "current") or of one this
\* no longer refers to, in the given status.  The handler clears
\* this.socket whichever socket closed; a socket it still referred to lives
\* on unreferenced.
BridgeSocketClose(status) ==
  /\ IF status = "current" THEN bridge.socket # "null" ELSE bridge.orphans[status] > 0
  /\ LET B0 == IF status = "current"
                 THEN [bridge EXCEPT !.socket = "null"]
                 ELSE [bridge EXCEPT !.orphans[status] = @ - 1]
         B1 == IF B0.socket = "null" THEN B0
               ELSE [B0 EXCEPT !.orphans[B0.socket] = @ + 1, !.socket = "null"]
     IN bridge' = bridgeScheduleReconnect([B1 EXCEPT !.state = "DISCONNECTED"])
  /\ UNCHANGED <<txVars, bridgeVars, otherVars>>

\* 'message' of an open socket: handleRawMessage, handleProtocolMessage
BridgeMessage(orphan, msg) ==
  /\ IF orphan THEN bridge.orphans.open > 0 ELSE bridge.socket = "open"
  /\ \E B \in {handleProtocolMessage(bridge, msg)} :
       /\ B.loginAttempts <= MaxAttempts
       /\ PendingTimers(B) <= MaxTimers
       /\ bridge' = B
  /\ UNCHANGED <<txVars, bridgeVars, otherVars>>

\* a setTimeout callback runs
BridgeTimer(callback) ==
  /\ bridge.timers[callback] > 0
  /\ LET B == [bridge EXCEPT !.timers[callback] = @ - 1]
     IN bridge' =
          IF callback = "login" THEN login(B)
          ELSE IF callback = "startSecureHandshake"
            THEN IF B.socket = "open" THEN startSecureHandshake(B) ELSE B
          ELSE sendMessage(sendMessage(B, REQUEST_DEVICES), REQUEST_ROOMS)
  /\ UNCHANGED <<txVars, bridgeVars, otherVars>>

\* ---------------------------------------------------------------- actions
\* nextMc() and ConnectionManager.sendWithRetry(msg) as the call i
sendCommand(i) ==
  /\ call[i].settled = "idle"
  /\ \A j \in 1..(i-1) : call[j].settled # "idle"
  /\ mc' = mc + 1
  /\ LET S0 == [TxState EXCEPT !.call[i].mc = mc + 1, !.call[i].settled = "pending"]
     IN Commit(Drain(acquire(S0, i), isConnected))
  /\ UNCHANGED <<ws, encryptionContext, bridgeVars, bridge, handler, sem, frame>>

\* facade switchDevice: nextMc() and ConnectionManager.sendWithRetry(msg)
SendWithRetry(i) == sendCommand(i) /\ UNCHANGED debouncers

\* the ACK timeout of call i fires (setTimeout in sendAttempt)
AckTimeout(i) ==
  /\ call[i].ackTimeoutTimer
  /\ LET S0 == [TxState EXCEPT !.call[i].ackTimeoutTimer = FALSE,
                               !.call[i].timedOut = IF call[i].off = "none" THEN @ + 1 ELSE @]
     IN Commit(Drain(handleFailure(S0, i), isConnected))
  /\ UNCHANGED <<ws, encryptionContext, mc, bridgeVars, bridge, otherVars>>

\* a retry timer of call i fires (setTimeout in handleFailure)
RetryTimer(i) ==
  /\ call[i].retryPending > 0
  /\ LET S0 == [TxState EXCEPT !.call[i].retryPending = call[i].retryPending - 1]
     IN Commit(Drain(sendAttempt(S0, i, isConnected), isConnected))
  /\ UNCHANGED <<ws, encryptionContext, mc, bridgeVars, bridge, otherVars>>

\* an ACK with ref = m is received and dispatched by MessageHandler
ReceiveAck(m) ==
  /\ isConnected
  /\ LET S0 == IF m \in DOMAIN pendingAcks
                 THEN LET i == pendingAcks[m]
                      IN IF call[i].off = "none" /\ call[i].ackTimeoutTimer
                           THEN [TxState EXCEPT !.call[i].acked = TRUE]
                           ELSE [TxState EXCEPT !.call[i] = Off(@, "other")]
                 ELSE TxState
     IN Commit(Drain(handleAck(S0, m), isConnected))
  /\ UNCHANGED <<ws, encryptionContext, mc, bridgeVars, bridge, otherVars>>

\* a NACK with ref = m is received and dispatched by MessageHandler
ReceiveNack(m) ==
  /\ isConnected
  /\ LET S0 == IF m \in DOMAIN pendingAcks
                 THEN LET i == pendingAcks[m]
                      IN [TxState EXCEPT !.call[i] = Off(@, "other")]
                 ELSE TxState
     IN Commit(Drain(handleNack(S0, m), isConnected))
  /\ UNCHANGED <<ws, encryptionContext, mc, bridgeVars, bridge, otherVars>>

\* the socket closes: the 'close' handler installed by ConnectionManager.connect
SocketClose ==
  /\ ws = "open"
  /\ \E code \in CloseCodes : Apply([closeHandler(State, code) EXCEPT !.ws = "closed"])

\* XComfortBridge.disconnect, called by the application
disconnect ==
  /\ allowReconnect
  /\ Apply(disconnectIn(State))

\* XComfortBridge.init, called by the application after construction, after
\* disconnect() and after a rejected init()
init ==
  /\ ws = "null" /\ ~reconnectTimer /\ ~connectionTimeout
  /\ Apply(connect([State EXCEPT !.allowReconnect = TRUE], "init"))

\* the socket opens
SocketOpen ==
  /\ ws = "connecting"
  /\ Apply([State EXCEPT !.ws = "open"])

\* The event loop runs the setImmediate callbacks that I/O callbacks have
\* queued (check phase) before it runs the next timer callback.
TimersPhase == immediate = << >>

\* the socket fails to open: 'error' (reject of ConnectionManager.connect),
\* 'close', then the .catch in XComfortBridge.connect
SocketError ==
  /\ ws = "connecting"
  /\ LET S1 == [closeHandler(State, ABNORMAL_CLOSURE) EXCEPT !.ws = "closed"]
         S2 == IF S1.facade = "part_021"
                 THEN scheduleReconnect(managerCleanup(stopWatchdog(clearConnectionTimers(S1))))
                 ELSE clearConnectionTimers(S1)
     IN Apply(rejectConnect(S2))

\* the reconnect timer fires (setTimeout in scheduleReconnect)
ReconnectTimerFires ==
  /\ reconnectTimer
  /\ reconnectAttempt < MaxReconnects
  /\ TimersPhase
  /\ Apply(reconnectTimerCallback(State))

\* the 1 s poll of XComfortBridge.connect finds the device list received
ConnectionCheck ==
  /\ connectionCheckInterval
  /\ TimersPhase
  /\ deviceListReceived
  /\ Apply(resolveConnect(markEstablished(clearConnectionTimers(State))))

\* the connection timeout of XComfortBridge.connect fires
ConnectionTimeoutFires ==
  /\ connectionTimeout
  /\ TimersPhase
  /\ LET S1 == managerCleanup(stopWatchdog(clearConnectionTimers(State)))
         S2 == IF S1.facade = "part_021" THEN scheduleReconnect(S1) ELSE S1
     IN Apply(rejectConnect(S2))

\* the watchdog interval fires on a connected socket: either no message
\* has arrived for three heartbeat periods (forced teardown and reconnect)
\* or the heartbeat is found stopped and is restarted
Watchdog(silent) ==
  /\ watchdogInterval
  /\ TimersPhase
  /\ isConnected
  /\ silent = (silence > maxSilenceMs)
  /\ silent \/ ~heartbeatInterval
  /\ Apply(watchdog(State))

\* a heartbeat period passes while the watchdog is set; beyond
\* maxSilenceMs the watchdog tells no two silences apart
Tick ==
  /\ watchdogInterval
  /\ silence <= maxSilenceMs
  /\ Apply([State EXCEPT !.silence = @ + TIMEOUTS_HEARTBEAT])

\* the heartbeat interval fires on a connected socket
Heartbeat ==
  /\ heartbeatInterval
  /\ TimersPhase
  /\ isConnected
  /\ mc < MaxMc
  /\ Apply(sendEncryptedMsg(State, Out(HEARTBEAT, 0)))

\* a frame arrives: the 'message' handler, XComfortBridge.handleRawMessage;
\* the peer encrypts with a context that has been generated
ReceiveRaw(msg) ==
  /\ ws = "open"
  /\ msg.key <= keyCount
  /\ LET S == Logged(State, handleRawMessage(State, msg), msg)
     IN /\ S.mc <= MaxMc
        /\ S.keyCount <= MaxKeys
        /\ Len(S.immediate) <= MaxImmediate
        /\ Apply(S)

\* a frame arrives from a peer that follows the protocol
ReceiveExpected(msg) ==
  /\ FollowsProtocol(State, msg)
  /\ ReceiveRaw(msg)

\* the oldest setImmediate callback runs: MessageHandler.processMessage
\* handles a SET_ALL_DATA with lastItem and calls onDeviceListComplete
RunImmediate ==
  /\ immediate # << >>
  /\ Apply([State EXCEPT !.immediate = Tail(immediate),
                         !.deviceListReceived =
                            IF Head(immediate) = "deviceListComplete" THEN TRUE ELSE @])

\* ---------------------------------------------------------- specifications
InitTxWith(revision, H, counter) ==
  /\ ws = "open"
  /\ encryptionContext = 1
  /\ mc = counter
  /\ permits = 1
  /\ queue = << >>
  /\ pendingAcks = EmptyMap
  /\ call = [i \in Calls |-> NewCall]
  /\ connectionEstablished = TRUE
  /\ reconnecting = FALSE
  /\ heartbeatInterval = TRUE
  /\ facade = revision
  /\ deviceListReceived = TRUE
  /\ allowReconnect = TRUE
  /\ connectionTimeout = FALSE
  /\ connectionCheckInterval = FALSE
  /\ reconnectTimer = FALSE
  /\ watchdogInterval = TRUE
  /\ connectCaller = "none"
  /\ authenticator = [deviceId |-> 1, connectionId |-> 1, publicKey |-> 1,
                      encryptionContext |-> 1, token |-> 1,
                      state |-> "authenticated", isRenewing |-> FALSE]
  /\ keyCount = 1
  /\ oldKeys = 0
  /\ immediate = << >>
  /\ silence = 0
  /\ reconnectAttempt = 0
  /\ lastCloseCode = 0
  /\ reconnectDelay = 0
  /\ scenario = [on |-> FALSE, inLog |-> << >>, sentLog |-> << >>, snapshot |-> TRUE,
                 ignored |-> FALSE]
  /\ bridge = NewBridge
  /\ handler = H
  /\ debouncers = NewDebouncers
  /\ sem = NewSemaphore(1)
  /\ frame = NoFrame

\* an established session of the device-only facade
InitTx == InitTxWith("part_021", NewHandler, 0)

NextTx ==
  \/ \E i \in Calls : SendWithRetry(i)
  \/ \E i \in Calls : AckTimeout(i)
  \/ \E i \in Calls : RetryTimer(i)
  \/ \E m \in 1..NumCalls : ReceiveAck(m)
  \/ \E m \in 1..NumCalls : ReceiveNack(m)
  \/ SocketClose
  \/ disconnect

SpecTx == InitTx /\ [][NextTx]_vars

\* an armed timer fires
TimerFires == \E i \in Calls : AckTimeout(i) \/ RetryTimer(i)

FairTx == WF_vars(TimerFires)

FairSpecTx == SpecTx /\ FairTx

\* the state after construction of the facade of the given revision
InitFacadeSem(revision, H, n) ==
  /\ ws = "null"
  /\ encryptionContext = 0
  /\ mc = 0
  /\ permits = 1
  /\ queue = << >>
  /\ pendingAcks = EmptyMap
  /\ call = [i \in Calls |-> NewCall]
  /\ connectionEstablished = FALSE
  /\ reconnecting = FALSE
  /\ heartbeatInterval = FALSE
  /\ facade = revision
  /\ deviceListReceived = FALSE
  /\ allowReconnect = TRUE
  /\ connectionTimeout = FALSE
  /\ connectionCheckInterval = FALSE
  /\ reconnectTimer = FALSE
  /\ watchdogInterval = FALSE
  /\ connectCaller = "none"
  /\ authenticator = AuthReset
  /\ keyCount = 0
  /\ oldKeys = 0
  /\ immediate = << >>
  /\ silence = 0
  /\ reconnectAttempt = 0
  /\ lastCloseCode = 0
  /\ reconnectDelay = 0
  /\ scenario = NewScenario
  /\ bridge = NewBridge
  /\ handler = H
  /\ debouncers = NewDebouncers
  /\ sem = NewSemaphore(n)
  /\ frame = NoFrame

InitFacadeWith(revision, H) == InitFacadeSem(revision, H, 1)

InitFacade(revision) == InitFacadeWith(revision, NewHandler)

\* the device-only facade
InitBridge == InitFacade("part_021")

NextBridge ==
  \/ init
  \/ disconnect
  \/ SocketOpen
  \/ SocketError
  \/ SocketClose
  \/ ReconnectTimerFires
  \/ ConnectionCheck
  \/ ConnectionTimeoutFires
  \/ \E silent \in BOOLEAN : Watchdog(silent)
  \/ Tick
  \/ Heartbeat
  \/ \E msg \in Inbound(MaxKeys) : ReceiveExpected(msg)
  \/ RunImmediate

SpecBridge == InitBridge /\ [][NextBridge]_vars

\* the facade with rooms
InitAuth == InitFacade("part_022")

\* the handshake under arbitrary frames, while no timer fires
NextAuth ==
  \/ init
  \/ disconnect
  \/ SocketOpen
  \/ SocketClose
  \/ \E msg \in Inbound(MaxKeys) : ReceiveRaw(msg)
  \/ RunImmediate

SpecAuth == InitAuth /\ [][NextAuth]_vars


\* the single-class engine after construction
InitLogin == InitFacade("part_022")

NextLogin ==
  \/ BridgeConnect
  \/ BridgeDisconnect
  \/ BridgeReconnectTimer
  \/ \E orphan \in BOOLEAN : BridgeSocketOpen(orphan)
  \/ \E status \in {"current", "connecting", "open", "closing"} : BridgeSocketClose(status)
  \/ \E orphan \in BOOLEAN, msg \in BridgeInbound : BridgeMessage(orphan, msg)
  \/ \E callback \in {"login", "startSecureHandshake", "requestDevices"} : BridgeTimer(callback)

SpecLogin == InitLogin /\ [][NextLogin]_vars

\* ----------------------------------------- specification of the MessageHandler
InitHandler == InitFacade("part_021")

NextHandler ==
  \/ \E d \in DeviceIds : AddListener(d, "cb1", MaxListeners)
  \/ \E payload \in StateUpdates : StateUpdate(payload)
  \/ \E payload \in Snapshots : DeviceData(payload)
  \/ FlushTimer
  \/ HandlerImmediate
  \/ HandlerConnect

SpecHandler == InitHandler /\ [][NextHandler]_vars

\* ------------------------------------- specification of the listener registry
\* updates that reach the listeners
ListenerUpdates ==
  {[item |-> <<[BlankItem(d) EXCEPT !.switch = "1"]>>] : d \in DeviceIds}

InitListeners ==
  InitFacadeWith("part_021", [NewHandler EXCEPT !.traced = TRUE, !.connects = 1])

NextListeners ==
  \/ \E d \in DeviceIds, cb \in ListenerFns : AddListener(d, cb, MaxRegistered)
  \/ \E d \in DeviceIds, cb \in ListenerFns : RemoveListener(d, cb)
  \/ \E payload \in ListenerUpdates : StateUpdate(payload)
  \/ FlushTimer
  \/ HandlerImmediate

SpecListeners == InitListeners /\ [][NextListeners]_vars

\* ------------------------------------------------ actions of the debouncer
\* the application calls dimDevice(deviceId, dimmValue)
DimDevice(deviceId, dimmValue) ==
  /\ debouncers.issued < MaxDims
  /\ debouncers' = dimDevice(debouncers, deviceId, dimmValue)
  /\ UNCHANGED <<txVars, bridgeVars, bridge, handler, sem, frame>>

\* the setTimeout of the oldest waiting CommandDebouncer.run fires: a run
\* that is not the latest of its debouncer returns undefined, the latest
\* calls fn
DebounceTimer ==
  /\ debouncers.timers # << >>
  /\ TimersPhase
  /\ LET run == Head(debouncers.timers)
     IN  IF run.myId # debouncers.currentRunId[run.debouncer]
           THEN /\ debouncers' = [debouncers EXCEPT !.timers = Tail(@)]
                /\ UNCHANGED <<txVars, bridgeVars, bridge, handler, sem, frame>>
         ELSE /\ debouncers' =
                   [debouncers EXCEPT
                      !.timers = Tail(@),
                      !.commands = Append(@, dimCommand(run.deviceId, run.dimmValue))]
              /\ \E i \in Calls : sendCommand(i)

\* an established session in which the application dims devices
NextDebounce ==
  \/ \E d \in DeviceIds, v \in DimValues : DimDevice(d, v)
  \/ DebounceTimer
  \/ disconnect
  \/ init
  \/ SocketOpen

SpecDebounce == InitTx /\ [][NextDebounce]_vars

\* ------------------------------------------------- the values of dimDevice
\* values of dimDevice, in thousandths: negative, zero, up to 1, whole
\* and fractional above 1, beyond DIM_MAX
DimInputs ==
  {-5000, -500, -1, 0, 1, 5, 6, 500, 505, 1000, 1001, 1500, 50000, 50500,
   98600, 99000, 99400, 150000}

\* an established session in which device 1 is dimmed to any value
NextDim ==
  \/ \E v \in DimInputs : DimDevice("1", v)
  \/ DebounceTimer

SpecDim == InitTx /\ [][NextDim]_vars

\* -------------------------------------------------------------- controlRoom
\* the application calls controlRoom(roomId, 'dimm', value)
ControlRoom(roomId, value) ==
  /\ debouncers.issued < MaxDims
  /\ LET result == controlRoom(handler, roomId, value)
     IN  /\ debouncers' = [debouncers EXCEPT !.issued = @ + 1, !.result = result]
         /\ IF result.returned = "false"
              THEN UNCHANGED <<txVars, bridgeVars, bridge, handler, sem, frame>>
            ELSE \E i \in Calls : sendCommand(i)

\* devices as the snapshot has stored them
StoredDevices ==
  { NoDevice,
    [NoDevice EXCEPT !.stored = TRUE, !.dimmable = "true", !.devType = "100"],
    [NoDevice EXCEPT !.stored = TRUE, !.dimmable = "false", !.devType = "101"],
    [NoDevice EXCEPT !.stored = TRUE, !.devType = "100"] }

\* rooms as the snapshot has stored them: none, one without a device list,
\* one with no, one or two member devices
StoredRooms ==
  { NoRoom, [NoRoom EXCEPT !.stored = TRUE] }
    \cup {[stored |-> TRUE, hasDevices |-> TRUE, devices |-> m] :
            m \in {<< >>, <<"1">>, <<"2">>, <<"1", "2">>}}

\* values of controlRoom, in thousandths
RoomInputs == {-5000, 0, 500, 1000, 50500, 99000, 150000}

\* an established session of the facade with rooms, after discovery
InitRoom ==
  \E devices \in [DeviceIds -> StoredDevices], rooms \in [RoomIds -> StoredRooms] :
    InitTxWith("part_022", [NewHandler EXCEPT !.devices = devices, !.rooms = rooms], 0)

NextRoom ==
  \/ \E r \in RoomIds, v \in RoomInputs : ControlRoom(r, v)
  \/ \E m \in 1..NumCalls : ReceiveAck(m)

SpecRoom == InitRoom /\ [][NextRoom]_vars

\* ------------------------------------------------------ the message counter
\* values ConnectionManager.mc has reached in a session: the first ones
\* and those around 2^16
McStarts == {0, 1, 65533, 65534, 65535}

\* an established session that has sent McStarts messages
InitMc == \E counter \in McStarts : InitTxWith("part_021", NewHandler, counter)

\* commands are sent, time out and are retried
NextMc ==
  \/ \E i \in Calls : SendWithRetry(i)
  \/ \E i \in Calls : AckTimeout(i)
  \/ \E i \in Calls : RetryTimer(i)

SpecMc == InitMc /\ [][NextMc]_vars

\* ------------------------------------------------------------ the semaphore
MaxAcquirers == 4

MaxPermits == 3

Acquirers == 1..MaxAcquirers

\* history: the promises of acquire() resolved by the call just made are
\* those of new holders; a caller whose promise was not resolved waits
Admit(S, caller) ==
  LET admitted == {S.granted[k] : k \in 1..Len(S.granted)}
  IN [S EXCEPT !.granted = << >>,
               !.holders = @ \cup admitted,
               !.served = IF caller = 0 /\ Len(S.waiting) > 1 /\ admitted # {}
                            THEN CHOOSE x \in admitted : TRUE ELSE @,
               !.waiting = LET w == IF caller \in admitted \/ caller = 0
                                      THEN @ ELSE Append(@, caller)
                           IN SelectSeq(w, LAMBDA x : x \notin admitted)]

\* a caller that neither holds a permit nor waits for one calls acquire()
Acquire(c) ==
  /\ c \notin sem.holders
  /\ \A k \in 1..Len(sem.waiting) : sem.waiting[k] # c
  /\ sem' = Admit(acquire(sem, c), c)
  /\ UNCHANGED <<txVars, bridgeVars, bridge, handler, debouncers, frame>>

\* a holder calls release()
Release(c) ==
  /\ c \in sem.holders
  /\ sem' = Admit(release([sem EXCEPT !.holders = @ \ {c}]), 0)
  /\ UNCHANGED <<txVars, bridgeVars, bridge, handler, debouncers, frame>>

\* new Semaphore(n) beside a facade
InitSem == \E n \in 1..MaxPermits : InitFacadeSem("part_021", NewHandler, n)

NextSem ==
  \/ \E c \in Acquirers : Acquire(c)
  \/ \E c \in Acquirers : Release(c)

SpecSem == InitSem /\ [][NextSem]_vars

\* ------------------------------------------------ reconnect backoff alone
\* The connect() of reconnect attempt reconnectAttempt has just been
\* started by the reconnect timer; the attempt number, the last close code
\* and whether a session was established before are drawn.
InitDelay ==
  /\ ws = "connecting"
  /\ encryptionContext = 0
  /\ mc = 0
  /\ permits = 1
  /\ queue = << >>
  /\ pendingAcks = EmptyMap
  /\ call = [i \in Calls |-> NewCall]
  /\ connectionEstablished \in BOOLEAN
  /\ reconnecting = FALSE
  /\ heartbeatInterval = FALSE
  /\ facade = "part_021"
  /\ deviceListReceived = FALSE
  /\ allowReconnect = TRUE
  /\ connectionTimeout = TRUE
  /\ connectionCheckInterval = TRUE
  /\ reconnectTimer = FALSE
  /\ watchdogInterval = FALSE
  /\ connectCaller = "reconnect"
  /\ authenticator = AuthReset
  /\ keyCount = 0
  /\ oldKeys = 0
  /\ immediate = << >>
  /\ silence = 0
  /\ reconnectAttempt \in 1..MaxBackoff
  /\ lastCloseCode \in {0} \cup CloseCodes
  /\ reconnectDelay = backoff(reconnectAttempt, lastCloseCode)
  /\ scenario = NewScenario
  /\ bridge = NewBridge
  /\ handler = NewHandler
  /\ debouncers = NewDebouncers
  /\ sem = NewSemaphore(1)
  /\ frame = NoFrame

\* the reconnect timer fires, for attempts up to MaxBackoff
ReconnectDelayElapses ==
  /\ reconnectTimer
  /\ reconnectAttempt < MaxBackoff
  /\ TimersPhase
  /\ Apply(reconnectTimerCallback(State))

\* attempts that fail one after the other
NextDelay ==
  \/ SocketError
  \/ ConnectionTimeoutFires
  \/ ReconnectDelayElapses

SpecDelay == InitDelay /\ [][NextDelay]_vars

\* ------------------------------------------------------- the round trip
\* the code points of a, e with acute accent and the euro sign: one, two
\* and three bytes in UTF-8
Chars == {97, 233, 8364}

\* the text of n characters a with c in place p
Text(n, c, p) == [k \in 1..n |-> IF k = p THEN c ELSE 97]

Texts == UNION {{Text(n, c, p) : c \in Chars, p \in {1, n}} : n \in 0..MaxChars}

\* a message is encrypted by Encryption.encryptMessage or by
\* ConnectionManager.sendEncrypted under a key and an iv
EncryptFrame(impl, payload, key, iv) ==
  /\ frame.stage = "none"
  /\ frame' = [stage |-> "sent", payload |-> payload, key |-> key, iv |-> iv,
               wire |-> IF impl = "Encryption" THEN encryptMessage(payload, key, iv)
                                               ELSE sendEncryptedFrame(payload, key, iv),
               padded |-> zeroPad(bufferFrom(payload)), out |-> << >>]
  /\ UNCHANGED <<txVars, bridgeVars, bridge, handler, debouncers, sem>>

\* the frame is received: the EOT is removed and the rest decrypted by
\* Encryption.decryptMessage or by ConnectionManager.decryptMessage
DecryptFrame(impl) ==
  /\ frame.stage = "sent"
  /\ frame' = [frame EXCEPT
                 !.stage = "received",
                 !.out = IF impl = "Encryption"
                           THEN decryptMessage(stripEot(frame.wire), frame.key, frame.iv)
                           ELSE managerDecryptMessage(stripEot(frame.wire), frame.key, frame.iv)]
  /\ UNCHANGED <<txVars, bridgeVars, bridge, handler, debouncers, sem>>

Implementations == {"Encryption", "ConnectionManager"}

NextCrypto ==
  \/ \E impl \in Implementations, payload \in Texts, key \in 1..2, iv \in 0..1 :
       EncryptFrame(impl, payload, key, iv)
  \/ \E impl \in Implementations : DecryptFrame(impl)

SpecCrypto == InitFacade("part_021") /\ [][NextCrypto]_vars

\* --------------------------------------------- state updates with rooms
\* items of a state update: of a device, whose id was parsed as a number or
\* as a string, or of a room
RoomBatchItems ==
  {[deviceId |-> <<t, d>>, roomId |-> Undef, switch |-> s, dimmvalue |-> v] :
     t \in {"number", "string"}, d \in DeviceIds,
     s \in {Undef, "false"}, v \in {Undef}}
  \cup
  {[deviceId |-> NoKey, roomId |-> r, switch |-> s, dimmvalue |-> v] :
     r \in RoomIds, s \in {Undef, "true", "false", "1"}, v \in {Undef}}

RoomBatches ==
  {<<i>> : i \in RoomBatchItems} \cup {<<i, j>> : i, j \in RoomBatchItems}

\* a SET_ALL_DATA / SET_STATE_INFO message arrives
RoomStateUpdate(payload) ==
  /\ handler.batches < MaxBatches
  /\ handler' = processRoomStateUpdate(handler, payload)
  /\ UNCHANGED <<txVars, bridgeVars, bridge, debouncers, sem, frame>>

\* time passes: less than the throttle interval, or as much
Advance(ms) ==
  /\ handler.advances < MaxAdvances
  /\ handler' = [handler EXCEPT !.now = @ + ms, !.advances = @ + 1]
  /\ UNCHANGED <<txVars, bridgeVars, bridge, debouncers, sem, frame>>

\* rooms the snapshot has stored, with their member devices
MemberRooms ==
  {NoRoom} \cup {[stored |-> TRUE, hasDevices |-> TRUE, devices |-> m] :
                   m \in {<<"1">>, <<"1", "2">>}}

InitPropagate ==
  \E revision \in {"earlier", "throttled"}, rooms \in [RoomIds -> MemberRooms] :
    InitFacadeWith("part_022", NewRoomHandler(revision, rooms))

NextPropagate ==
  \/ \E payload \in RoomBatches : RoomStateUpdate(payload)
  \/ \E ms \in {50, THROTTLE_MS} : Advance(ms)

SpecPropagate == InitPropagate /\ [][NextPropagate]_vars

\* -------------------------------------------------- dimming, then switching
\* the application calls switchDevice(deviceId, switchState)
SwitchDevice(deviceId, switchState) ==
  /\ debouncers.issued < MaxDims
  /\ debouncers' = [debouncers EXCEPT
                      !.issued = @ + 1,
                      !.commands = Append(@, switchCommand(deviceId, switchState))]
  /\ \E i \in Calls : sendCommand(i)

\* switchDevice has been called
Switched ==
  \E k \in 1..Len(debouncers.commands) : debouncers.commands[k].type_int = DEVICE_SWITCH

\* dimDevice(deviceId, dimmValue) of an application that has not switched yet
DimBeforeSwitch(deviceId, dimmValue) == ~Switched /\ DimDevice(deviceId, dimmValue)

\* an established session in which the application dims devices to values
\* above 0 and then switches devices off
NextSwitch ==
  \/ \E d \in DeviceIds, v \in DimValues \ {0} : DimBeforeSwitch(d, v)
  \/ \E d \in DeviceIds : SwitchDevice(d, FALSE)
  \/ DebounceTimer
  \/ \E m \in 1..NumCalls : ReceiveAck(m)

SpecSwitch == InitTx /\ [][NextSwitch]_vars
\* ------------------------------------------------------------------ C1
\* C1: a call to which only transmissions, ACK timeouts and an ACK in time
\* happen: after N <= maxRetries timeouts followed by an ACK of the next
\* transmission it has resolved true with exactly N retries and N+1
\* transmissions, all carrying its counter; after maxRetries+1 timeouts it has
\* rejected, with maxRetries+1 transmissions, and nothing is left that could
\* transmit it again; it rejects in no other case and is never transmitted
\* after the rejection.
C1_State ==
  \A i \in Calls : call[i].off = "none" =>
    /\ call[i].txMc \subseteq {call[i].mc}
    /\ call[i].timedOut <= maxRetries + 1
    /\ call[i].acked =>
         /\ call[i].settled = "resolved"
         /\ call[i].timedOut <= maxRetries
         /\ call[i].retries = call[i].timedOut
         /\ call[i].sent = call[i].timedOut + 1
    /\ call[i].settled = "resolved" => call[i].acked
    /\ call[i].settled = "rejected" <=> call[i].timedOut = maxRetries + 1
    /\ call[i].timedOut = maxRetries + 1 =>
         /\ call[i].sent = maxRetries + 1
         /\ call[i].retries = maxRetries
         /\ call[i].retryPending = 0
         /\ ~call[i].ackTimeoutTimer
         /\ call[i].mc \notin DOMAIN pendingAcks

C1_Step ==
  \A i \in Calls :
    (call[i].off = "none" /\ call[i].settled = "rejected") =>
       (call'[i].off = "none" /\ call'[i].sent = call[i].sent)

C1_RetryThenAckOrReject == [](C1_State) /\ [][C1_Step]_vars

\* one call resolved by an ACK after two timeouts, another rejected after
\* maxRetries+1 timeouts
C1_Witness ==
  \E i, j \in Calls :
     /\ call[i].off = "none" /\ call[i].acked /\ call[i].timedOut = 2
     /\ call[i].settled = "resolved"
     /\ call[j].off = "none" /\ call[j].timedOut = maxRetries + 1
     /\ call[j].settled = "rejected"

\* ------------------------------------------------------------------ C2
\* C2: at most one reliable command is transmitted and awaiting its ACK: the
\* pending-ACK map never holds more than one counter and at most one call
\* has its ACK timer running.
C2_AtMostOneInFlight ==
  /\ Cardinality(DOMAIN pendingAcks) <= 1
  /\ Cardinality({i \in Calls : call[i].ackTimeoutTimer}) <= 1

\* ------------------------------------------------------------------ C3
\* C3: every sendWithRetry call gives its permit back exactly once, so the
\* free permits of the transmit semaphore never exceed 1.
C3_ReleasedExactlyOnce ==
  /\ permits <= 1
  /\ \A i \in Calls : call[i].released <= 1

\* ------------------------------------------------------------------ C4
\* C4: the step of the socket close empties the pending-ACK map and takes
\* every entry through its failure path (a retry is counted or the call is
\* rejected); once the socket is closed an unsettled call settles only by
\* rejecting, and eventually no call is left unsettled.
C4_CloseStep ==
  (ws = "open" /\ ws' = "closed") =>
     /\ pendingAcks' = EmptyMap
     /\ \A m \in DOMAIN pendingAcks :
          LET i == pendingAcks[m]
          IN \/ call'[i].retries = call[i].retries + 1
                /\ call'[i].retryPending = call[i].retryPending + 1
             \/ call[i].retries = maxRetries
                /\ call'[i].settled # "pending"

C4_ClosedStep ==
  \A i \in Calls :
    (ws = "closed" /\ call[i].settled = "pending") =>
       call'[i].settled \in {"pending", "rejected"}

C4_NoCallerHangs ==
  /\ [][C4_CloseStep /\ C4_ClosedStep]_vars
  /\ (ws = "closed") ~> (\A i \in Calls : call[i].settled # "pending")

\* a call whose pending entry the close resolved as failure has rejected
C4_Witness ==
  \E i \in Calls : call[i].off = "close" /\ call[i].settled = "rejected"
                    /\ ws = "closed"

\* ------------------------------------------------------------------ C5
\* C5: a NACK for a counter with a pending entry enters the retry path: with
\* fewer than maxRetries retries used it counts a retry and schedules the
\* retransmission without settling the promise, it rejects the call only
\* when the retries are exhausted, and the scheduled retry retransmits the
\* message when it fires on a connected socket.
C5_Step ==
  /\ \A m \in 1..NumCalls :
       (ReceiveNack(m) /\ m \in DOMAIN pendingAcks) =>
          LET i == pendingAcks[m]
          IN IF call[i].retries < maxRetries
               THEN /\ call'[i].retries = call[i].retries + 1
                    /\ call'[i].retryPending = call[i].retryPending + 1
                    /\ call'[i].settled = call[i].settled
                    /\ m \in DOMAIN pendingAcks'
               ELSE /\ call'[i].settled # "pending"
                    /\ call[i].settled = "pending" => call'[i].settled = "rejected"
  /\ \A i \in Calls :
       (RetryTimer(i) /\ isConnected) =>
          /\ call'[i].ackTimeoutTimer
          /\ call[i].mc \in DOMAIN pendingAcks'
          /\ pendingAcks'[call[i].mc] = i

C5_NackRetries == [][C5_Step]_vars

\* a NACKed call that waits for its first retry, unsettled, with its entry
\* kept (on a connected socket only a NACK takes an unsettled call off the
\* timeout-only path: an ACK settles it)
C5_Witness ==
  \E i \in Calls : /\ isConnected
                    /\ call[i].off = "other" /\ call[i].settled = "pending"
                    /\ call[i].retryPending = 1 /\ call[i].retries = 1
                    /\ ~call[i].ackTimeoutTimer
                    /\ call[i].mc \in DOMAIN pendingAcks

\* the specification of the facade under the timers the event loop runs:
\* an armed timer fires, a queued setImmediate callback runs, a socket that
\* is connecting opens or fails
FairBridge ==
  /\ WF_vars(ReconnectTimerFires)
  /\ WF_vars(ConnectionTimeoutFires)
  /\ WF_vars(ConnectionCheck)
  /\ WF_vars(RunImmediate)
  /\ WF_vars(SocketOpen \/ SocketError)

FairSpecBridge == SpecBridge /\ FairBridge

\* ---- C6 --------------------------------------------------------------
\* position of a state of the Authenticator along the handshake
C6_Rank(s) ==
  CASE s = "idle" -> 0
    [] s = "awaiting_public_key" -> 1
    [] s = "awaiting_secret_ack" -> 2
    [] s = "awaiting_login_response" -> 3
    [] s = "awaiting_token_apply" -> 4
    [] s = "awaiting_token_renew" -> 5
    [] s = "authenticated" -> 6

C6_Step ==
  \/ authenticator' = AuthReset
  \/ C6_Rank(authenticator'.state) >= C6_Rank(authenticator.state)

\* C6: the state of the Authenticator only moves forward along idle,
\* awaiting_public_key, awaiting_secret_ack, awaiting_login_response,
\* awaiting_token_apply, awaiting_token_renew, authenticated: no inbound
\* message moves it to an earlier state, and authenticated stays until
\* reset().
C6_ForwardOnly == [][C6_Step]_vars

\* ---- C7 --------------------------------------------------------------
\* the messages the engine sends in reply to the k-th message of the
\* handshake inLog
C7_Reply(inLog, k) ==
  IF k = 1 THEN <<Out(CONNECTION_CONFIRM, inLog[1].payload.connection_id)>>
  ELSE IF k = 2 THEN <<Out(SC_INIT_REQUEST, 0)>>
  ELSE IF k = 3 THEN <<Out(SECRET_EXCHANGE, oldKeys + 1)>>
  ELSE IF k = 4 THEN <<Out(LOGIN_REQUEST, inLog[1].payload.device_id)>>
  ELSE IF k = 5 THEN <<Out(TOKEN_APPLY, inLog[5].payload.token)>>
  ELSE IF k = 6 THEN <<Out(TOKEN_RENEW, inLog[5].payload.token)>>
  ELSE IF k = 7 THEN <<Out(TOKEN_APPLY, inLog[7].payload.token)>>
  ELSE <<Out(REQUEST_DEVICES, 0), Out(REQUEST_ROOMS, 0), Out(HEARTBEAT, 0)>>

RECURSIVE C7_Replies(_, _)
C7_Replies(inLog, k) == IF k = 0 THEN << >> ELSE C7_Replies(inLog, k - 1) \o C7_Reply(inLog, k)

C8_TwoStrikes ==
  bridge.tokenless >= 2 =>
    /\ bridge.authFailed
    /\ bridge.socket = "null"
    /\ bridge.manualDisconnect
    /\ bridge.logins <= 2

\* ---- C9 --------------------------------------------------------------
\* C9: the encryption context is generated fresh for each connection
\* attempt and discarded when the connection ends; on a new socket nothing
\* is reported as sendable (isConnected) with a context of an earlier
\* attempt.
C9_NoStaleKey ==
  ~(isConnected /\ encryptionContext <= oldKeys)

\* ---- C10 -------------------------------------------------------------
\* C10: whenever the socket has closed while no disconnect() is in effect,
\* a reconnect is eventually attempted, also when the socket closes before
\* the connection was first established (up to the MaxReconnects attempts
\* of a behaviour).
C10_ReconnectAfterDrop ==
  (ws = "closed" /\ allowReconnect) ~>
    (ws = "connecting" \/ ~allowReconnect \/ reconnectAttempt >= MaxReconnects)

\* ---- C11 -------------------------------------------------------------
C11_State ==
  ~allowReconnect =>
    /\ ws = "null"
    /\ ~heartbeatInterval
    /\ ~watchdogInterval
    /\ ~reconnectTimer
    /\ ~connectionTimeout
    /\ ~connectionCheckInterval
    /\ ~reconnecting

C11_Step ==
  (~allowReconnect /\ allowReconnect') => (ws' = "connecting" /\ connectCaller' = "init")

\* C11: after disconnect() auto-reconnect is disabled and everything is
\* torn down: the heartbeat, watchdog, reconnect and connect timers are
\* cleared, and no later event schedules a reconnect or opens a socket until
\* init() is called again.
C11_DisconnectIsFinal == [](C11_State) /\ [][C11_Step]_vars

C11_Witness ==
  /\ ~allowReconnect
  /\ connectCaller = "reconnect"
  /\ encryptionContext # 0
  /\ immediate # << >>

\* ---- C12 -------------------------------------------------------------
C12_Step ==
  /\ (ws' = "open" /\ ws # "open") =>
        (connectionEstablished' = connectionEstablished /\ connectCaller' = connectCaller)
  /\ (connectionEstablished' /\ ~connectionEstablished) =>
        /\ authenticator.state = "authenticated"
        /\ scenario.snapshot

\* C12: the promise of connect() is not resolved by the socket opening; the
\* facade calls markEstablished() only after authentication has completed
\* and a discovery snapshot with the terminal-item flag has been received on
\* the current connection.
C12_EstablishedAfterDiscovery == [][C12_Step]_vars

\* ---- C13 -------------------------------------------------------------
\* C13: every connect()/init() call settles: it resolves once discovery
\* completes and is rejected no later than the connect timeout otherwise
\* (stuck handshake, socket closed early, disconnect() during the attempt);
\* no call stays pending forever.
C13_ConnectSettles == (connectCaller # "none") ~> (connectCaller = "none")

\* ---- C14
\* C14: the update fields received for a device since its last dispatch, in
\* one or several raw messages, are all in the update waiting to be
\* dispatched to its listeners when the window elapses, merged with the last
\* value winning per field and metadata merged key by key: no received field
\* is lost.
C14_NothingLost ==
  \A d \in DeviceIds : handler.pendingDeviceUpdates[d] = handler.window[d]

\* ---- C15
\* the step in which the delay of the oldest waiting dimDevice call elapses,
\* while a later call for the same device id is already waiting, neither
\* builds a command nor starts a sendWithRetry (whose promise could reject);
\* without a later call for the same id the call builds exactly its command
C15_Step ==
  (debouncers.timers # << >> /\ debouncers'.timers = Tail(debouncers.timers)) =>
    LET run == Head(debouncers.timers)
    IN  IF \E k \in 2..Len(debouncers.timers) :
              debouncers.timers[k].deviceId = run.deviceId
          THEN /\ debouncers'.commands = debouncers.commands
               /\ call' = call
               /\ mc' = mc
        ELSE debouncers'.commands =
               Append(debouncers.commands, dimCommand(run.deviceId, run.dimmValue))

\* C15: of several dimDevice calls for the same device id, each issued
\* before the delay of the previous one has elapsed, only the last transmits
\* a command, with its value; every superseded call resolves without error
\* and transmits nothing; calls for other device ids supersede nothing.
C15_Debounce == [][C15_Step]_vars

\* ------------------------------------------------------------------- C16
C16_Step ==
  \A silent \in BOOLEAN :
    Watchdog(silent) =>
      IF silence > maxSilenceMs
        THEN /\ ws' # "open"
             /\ ~heartbeatInterval'
             /\ reconnecting' /\ reconnectTimer'
      ELSE /\ ws' = ws
           /\ encryptionContext' = encryptionContext
           /\ reconnectTimer' = reconnectTimer
           /\ reconnectAttempt' = reconnectAttempt
           /\ heartbeatInterval'

\* C16: when the watchdog fires on a connected session, a silence of more
\* than three heartbeat periods makes it tear the connection down with a
\* reconnect scheduled; within that bound it leaves the socket and the
\* reconnect timer as they are and the heartbeat loop runs afterwards.
C16_Watchdog == [][C16_Step]_vars

\* the watchdog has torn a silent session down: no close event was ever
\* seen, and the first reconnect is scheduled
C16_Witness ==
  /\ silence > maxSilenceMs
  /\ ws # "open"
  /\ reconnectTimer
  /\ reconnectAttempt = 1
  /\ lastCloseCode = 0

\* ------------------------------------------------------------------- C17
\* baseDelay of scheduleReconnect for a close code
C17_Base(code) == IF code = ABNORMAL_CLOSURE THEN 500 ELSE RECONNECT_DELAY

C17_Step ==
  /\ (ConnectionCheck /\ connectCaller = "reconnect") => reconnectAttempt' = 0
  /\ reconnectAttempt' > reconnectAttempt =>
        /\ reconnectAttempt' = reconnectAttempt + 1
        /\ reconnectTimer'
        /\ reconnectAttempt = 0 => reconnectDelay' = C17_Base(lastCloseCode')
  /\ ((ConnectionTimeoutFires \/ SocketError) /\ connectCaller = "reconnect") =>
        reconnectAttempt' >= reconnectAttempt
  /\ reconnectAttempt' < reconnectAttempt =>
        /\ reconnectAttempt' = 0
        /\ \/ ConnectionCheck /\ connectCaller = "reconnect"
           \/ ~allowReconnect'

RECURSIVE C18_Power(_, _)
C18_Power(b, e) == IF e = 0 THEN 1 ELSE b * C18_Power(b, e - 1)

C18_Min(a, b) == IF a < b THEN a ELSE b

\* the delay the claim gives for attempt n after close code `code`
C18_Delay(n, code) == C18_Min(C17_Base(code) * C18_Power(2, n - 1), 60000)

C18_Step ==
  reconnectAttempt' = reconnectAttempt + 1 =>
    /\ reconnectTimer'
    /\ reconnectDelay' = C18_Delay(reconnectAttempt', lastCloseCode')
    /\ reconnectDelay' <= 60000
    /\ C17_Base(lastCloseCode') = C17_Base(lastCloseCode) => reconnectDelay' >= reconnectDelay

\* C18: the reconnect scheduled as attempt n >= 1 is armed with the delay
\* min(base * 2^(n-1), 60000), base being 500 after close code 1006 and
\* 5000 otherwise; the delay is at most 60000 and, the base staying the
\* same, not smaller than the delay of the attempt before.
C18_Backoff == [][C18_Step]_vars

\* an attempt whose delay is cut to the maximum has been scheduled after
\* an abnormal closure
C18_Witness ==
  /\ reconnectTimer
  /\ lastCloseCode = ABNORMAL_CLOSURE
  /\ reconnectAttempt = 8
  /\ reconnectDelay = 60000

\* ------------------------------------------------------------------- C19
C19_Step ==
  (handler.flushTimers # << >> /\ handler'.flushTimers = Tail(handler.flushTimers)) =>
    LET deviceId == Head(handler.flushTimers)
        latest == handler.pendingDeviceUpdates[deviceId]
        device == getDevice(handler', deviceId)
    IN  (getDevice(handler, deviceId).stored /\ deviceId \notin handler.refreshed) =>
          /\ device.stored
          /\ latest.dimmvalue # Undef => device.dimmvalue = latest.dimmvalue
          /\ latest.switch # Undef => toBoolean(device.switch) = latest.switch

\* C19: when the state update of a device that was in the store as the
\* update arrived has been processed (merged and dispatched), getDevice
\* returns the switch and dimmvalue the update carried.
C19_StoreFollowsDeltas == [][C19_Step]_vars

\* ------------------------------------------------------------------- C20
\* C20: once a discovery snapshot has arrived on the current connection,
\* getAllDevices returns exactly the devices of the snapshots of this
\* connection: what an earlier connection had stored is gone.
C20_FreshStore ==
  handler.discovered # {} => getAllDevices(handler) = handler.discovered

\* ------------------------------------------------------------------- C21
C21_Step ==
  \A d \in DeviceIds, cb \in ListenerFns :
    RemoveListener(d, cb) =>
      /\ \A k \in 1..Len(handler'.listeners[d].callbacks) :
           handler'.listeners[d].callbacks[k] # cb
      /\ handler'.listeners[d].callbacks = << >> => ~handler'.listeners[d].present

\* C21: after removeListener(id, cb) the registry of id holds no reference
\* to cb, however often cb had been added, and an id without listeners has
\* no entry in the registry.
C21_NoReferenceAfterRemoval == [][C21_Step]_vars

\* ------------------------------------------------------------------- C22
C22_Step ==
  /\ FlushTimer =>
       LET deviceId == Head(handler.flushTimers)
       IN  /\ handler'.invocations = handler.invocations
           /\ Len(handler'.immediate) =
                Len(handler.immediate) + Len(handler.listeners[deviceId].callbacks)
  /\ (HandlerImmediate /\ Head(handler.immediate).kind = "callback") =>
       /\ handler'.invocations = handler.invocations + 1
       /\ handler'.immediate = Tail(handler.immediate)

\* C22: triggerListeners calls no listener itself: it queues one deferred
\* call per listener of the id and returns; each deferred call invokes its
\* listener, and when the listener throws the calls queued behind it stay
\* queued and are made.
C22_DeferredAndIsolated == [][C22_Step]_vars

\* one update of device 1 has been dispatched to a throwing listener and,
\* after it, to a second listener
C22_Witness ==
  /\ handler.listeners["1"].callbacks = <<"cb2", "cb1">>
  /\ handler.listeners["2"] = NoListeners
  /\ handler.received = 1
  /\ handler.invocations = 2
  /\ handler.immediate = << >>

\* ------------------------------------------------------------------- C23
C23_Step ==
  ( /\ debouncers.timers # << >>
    /\ debouncers'.timers = Tail(debouncers.timers)
    /\ Len(debouncers'.commands) = Len(debouncers.commands) + 1
    /\ Head(debouncers.timers).dimmValue <= 0 ) =>
      debouncers'.commands[Len(debouncers'.commands)] =
        [type_int |-> DEVICE_SWITCH, deviceId |-> Head(debouncers.timers).deviceId,
         value |-> 0]

\* C23: the command dimDevice builds for a value that is zero or negative
\* is the switch-off command of the device (DEVICE_SWITCH, switch 0), never
\* a DEVICE_DIM.
C23_OffAtOrBelowZero == [][C23_Step]_vars

\* ------------------------------------------------------------------- C24
\* C24: every DEVICE_DIM command dimDevice has built carries a whole
\* number from DIM_MIN to DIM_MAX as its dimmvalue.
C24_DimValueInRange ==
  \A k \in 1..Len(debouncers.commands) :
    debouncers.commands[k].type_int = DEVICE_DIM =>
      /\ isInteger(debouncers.commands[k].value)
      /\ debouncers.commands[k].value >= Milli(DIM_MIN)
      /\ debouncers.commands[k].value <= Milli(DIM_MAX)

\* ------------------------------------------------------------------- C25
\* the room is known and one of its member devices is dimmable
C25_Dimmable(roomId) ==
  /\ handler.rooms[roomId].stored
  /\ \E d \in DeviceIds :
       /\ \E k \in 1..Len(handler.rooms[roomId].devices) :
            handler.rooms[roomId].devices[k] = d
       /\ handler.devices[d].stored
       /\ handler.devices[d].dimmable = "true" \/ handler.devices[d].devType = "101"

C25_Step ==
  \A r \in RoomIds, v \in RoomInputs :
    ControlRoom(r, v) =>
      IF ~C25_Dimmable(r)
        THEN /\ debouncers'.result.returned = "false"
             /\ mc' = mc /\ call' = call /\ pendingAcks' = pendingAcks
      ELSE /\ debouncers'.result.returned = "sendWithRetry"
           /\ debouncers'.result.type_int = "ROOM_DIM"
           /\ debouncers'.result.roomId = r
           /\ debouncers'.result.dimmvalue >= Milli(DIM_MIN)
           /\ debouncers'.result.dimmvalue <= Milli(DIM_MAX)
           /\ (v >= Milli(DIM_MIN) /\ v <= Milli(DIM_MAX)) => debouncers'.result.dimmvalue = v
           /\ mc' # mc

\* C25: controlRoom(roomId, 'dimm', value) with a number returns false and
\* sends nothing unless the room is known and one of its member devices is
\* dimmable; otherwise it sends a ROOM_DIM command for the room whose
\* dimmvalue is the value brought into [DIM_MIN, DIM_MAX].
C25_RoomDimm == [][C25_Step]_vars

\* a room with a dimmable and a plain member has been dimmed with a value
\* above the range
C25_Witness ==
  /\ handler.rooms["r1"].devices = <<"1", "2">>
  /\ handler.devices["1"].devType = "100" /\ handler.devices["1"].dimmable = Undef
  /\ handler.devices["2"].devType = "101"
  /\ debouncers.result.returned = "sendWithRetry"
  /\ debouncers.result.dimmvalue = Milli(DIM_MAX)
  /\ debouncers.issued = 1

\* ------------------------------------------------------------------- C26
C26_Step ==
  mc' # mc =>
    /\ mc' \in 1..65535
    /\ mc' = IF mc = 65535 THEN 1 ELSE mc + 1

\* C26: within a connection the message counter yields 1, 2, ..., 65535
\* and then 1 again: each value is the one before plus one, or 1 after
\* 65535, and none is 0 or above 65535.
C26_RollingCounter == [][C26_Step]_vars

\* ------------------------------------------------------------------- C27
\* the frames without a required field
C27_Malformed == {msg \in Inbound(MaxKeys) : Malformed(msg)}

C28_Step ==
  \A i \in Calls :
    (~isConnected /\ call[i].settled = "pending" /\ call'[i].settled = "rejected") =>
      call[i].retries = maxRetries

\* C28: sendEncrypted returns false without an encryption context or an
\* open socket, and a send of sendWithRetry that fails for that reason goes
\* through the retry path: on a session that is not connected a pending
\* call is rejected only once its maxRetries retries are used up.
C28_SendFailureRetried ==
  /\ [](~isConnected => ~sendEncrypted(isConnected))
  /\ [][C28_Step]_vars

\* ------------------------------------------------------------------- C29
C29_Free == Cardinality(sem.holders) < sem.size

C29_Acquire(c) ==
  IF C29_Free
    THEN sem'.holders = sem.holders \cup {c} /\ sem'.waiting = sem.waiting
    ELSE sem'.holders = sem.holders /\ sem'.waiting = Append(sem.waiting, c)

C29_Release(c) ==
  IF sem.waiting = << >>
    THEN sem'.holders = sem.holders \ {c} /\ sem'.waiting = << >>
    ELSE /\ sem'.holders = (sem.holders \ {c}) \cup {Head(sem.waiting)}
         /\ sem'.waiting = Tail(sem.waiting)

C29_Step ==
  \A c \in Acquirers :
    /\ Acquire(c) => C29_Acquire(c)
    /\ Release(c) => C29_Release(c)

\* C29: of a Semaphore(permits) whose holders release once each, at most
\* permits callers hold a permit at a time; acquire() returns at once while
\* a permit is free and waits otherwise; release() admits exactly one
\* waiter, the one that has waited longest, and nobody waits while a permit
\* is free.
C29_FifoSemaphore ==
  /\ [](Cardinality(sem.holders) <= sem.size)
  /\ [](sem.waiting # << >> => ~C29_Free)
  /\ [][C29_Step]_vars

\* a release has admitted the first of two waiters; the second still waits
C29_Witness ==
  /\ sem.served # 0
  /\ sem.served \in sem.holders
  /\ Len(sem.waiting) = 1
  /\ Cardinality(sem.holders) = sem.size

\* ------------------------------------------------------------------- C30
C30_Padding ==
  LET n == Len(bufferFrom(frame.payload))
      pad == Len(frame.padded) - n
  IN /\ pad \in 1..BLOCK_SIZE
     /\ Len(frame.padded) % BLOCK_SIZE = 0
     /\ Len(frame.padded) > n
     /\ n % BLOCK_SIZE = 0 => pad = BLOCK_SIZE
     /\ frame.padded = bufferFrom(frame.payload) \o alloc(pad)
     /\ Len(fromBase64(stripEot(frame.wire))) = Len(frame.padded)

\* C30: under every key and iv a text of any length in bytes, the multiples
\* of 16 included, comes back from encryption followed by decryption as it
\* was, whichever of the two implementations encrypts and decrypts; the
\* plaintext is the text followed by 1 to 16 zero bytes, a whole block of
\* them when the text fills its last block, so that the padded length is
\* the next multiple of 16 above the length of the text.
C30_RoundTrip ==
  /\ frame.stage # "none" => C30_Padding
  /\ frame.stage = "received" => frame.out = frame.payload

\* a text of 32 bytes with characters of two and three bytes was padded
\* with a block of zeros and came back
C30_Witness ==
  /\ frame.stage = "received"
  /\ Len(bufferFrom(frame.payload)) = 2 * BLOCK_SIZE
  /\ Len(frame.payload) < 2 * BLOCK_SIZE
  /\ Len(frame.padded) = 3 * BLOCK_SIZE
  /\ frame.out = frame.payload

\* ------------------------------------------------------------------- C31
C31_Step ==
  /\ reconnectAttempt' \in {reconnectAttempt, reconnectAttempt + 1, 0}
  /\ reconnectAttempt' = reconnectAttempt + 1 <=> (~reconnectTimer /\ reconnectTimer')
  /\ (ws' = "connecting" /\ ws # "connecting") => ws \in {"null", "closed"}

\* C31: at most one reconnect is pending or in progress: a reconnect
\* timer is armed only while none is armed, the attempt counter goes up by
\* one exactly when a timer is armed, no socket is live while a reconnect is
\* pending, and a connection attempt opens its socket only when the one
\* before it is closed or torn down.
C31_OneReconnect ==
  /\ [](reconnectTimer <=> reconnecting)
  /\ [](reconnectTimer => ws \in {"null", "closed"})
  /\ [][C31_Step]_vars

\* the second attempt in a row is pending: the first one failed, and the
\* .catch of the reconnect timer found the next one scheduled by the
\* failure handler
C31_Witness ==
  /\ reconnectTimer
  /\ reconnectAttempt = 2
  /\ ws = "null"
  /\ connectCaller = "none"
  /\ ~connectionTimeout

\* ------------------------------------------------------------------- C32
C32_Step ==
  (authenticator' # authenticator /\ authenticator'.state # "idle") =>
    immediate = << >>

\* C32: frames take effect in the order of their arrival: a frame moves
\* the Authenticator on only when no frame that arrived before it still
\* waits to be processed.
C32_ArrivalOrder == [][C32_Step]_vars

\* ------------------------------------------------------------------- C33
C33_Step ==
  (immediate # << >> /\ Head(immediate) = "deviceListComplete" /\ RunImmediate) =>
    ~deviceListReceived

\* C33: the callback of the complete device list runs once in a
\* connection: when it runs, it has not run since connect().
C33_OneShot == [][C33_Step]_vars

\* ------------------------------------------------------------------- C34
\* the batch processed last holds a device item of device d
C34_OwnItem(d) ==
  \E j \in 1..Len(handler.payload) :
    /\ handler.payload[j].deviceId # NoKey
    /\ handler.payload[j].deviceId[2] = d

\* the propagation has called the listeners of device d
C34_Synthetic(d) ==
  \E k \in 1..Len(handler.deviceCalls) :
    handler.deviceCalls[k].synthetic /\ handler.deviceCalls[k].deviceId[2] = d

\* the only room item of its room in the batch, with a switch value
C34_RoomItem(i) ==
  LET item == handler.payload[i]
  IN  /\ item.roomId # Undef /\ item.deviceId = NoKey /\ item.switch # Undef
      /\ \A j \in 1..Len(handler.payload) :
           (handler.payload[j].deviceId = NoKey
              /\ handler.payload[j].roomId = item.roomId) => j = i

\* C34: after a state-update batch with a room item that carries a switch
\* value, the listeners of the room were called with it, every member device
\* of the room without a device item of its own in the batch was called with
\* the synthetic update {switch: value}, and no member with a device item of
\* its own in the batch was called with a synthetic update.
C34_RoomSwitchPropagated ==
  \A i \in 1..Len(handler.payload) :
    C34_RoomItem(i) =>
      LET item == handler.payload[i]
          room == getRoom(handler, item.roomId)
      IN  /\ \E k \in 1..Len(handler.roomCalls) :
               /\ handler.roomCalls[k].roomId = item.roomId
               /\ toBoolean(handler.roomCalls[k].switch) = toBoolean(item.switch)
          /\ \A m \in 1..Len(room.devices) :
               LET d == room.devices[m]
               IN  IF C34_OwnItem(d) THEN ~C34_Synthetic(d)
                   ELSE \E k \in 1..Len(handler.deviceCalls) :
                          /\ handler.deviceCalls[k].synthetic
                          /\ handler.deviceCalls[k].deviceId = <<"string", d>>
                          /\ toBoolean(handler.deviceCalls[k].switch)
                               = toBoolean(item.switch)

\* ------------------------------------------------------------------- C35
C35_Step ==
  ConnectionCheck => (ws = "open" /\ encryptionContext # 0
                        /\ authenticator.state = "authenticated")

\* C35: the poll of connect() resolves the promise, marks the connection
\* established and resets the reconnect attempt counter only while the
\* socket of the attempt is open and authenticated: an attempt whose socket
\* closed after the device list was received is not reported as successful.
C35_ResolvesOnLiveSocket == [][C35_Step]_vars

\* ------------------------------------------------------------------- C36
C36_Step == Heartbeat => authenticator.state = "authenticated"

\* C36: the heartbeat loop transmits a HEARTBEAT only on a connection whose
\* authentication has completed: a loop started on an earlier connection
\* sends nothing during the key exchange, login and token phases of the
\* next one.
C36_HeartbeatAfterAuth == [][C36_Step]_vars

\* ------------------------------------------------------------------- C37
\* C37: commands for one device are transmitted in the order of their calls:
\* where every dimDevice(id, v) with v > 0 was called before every
\* switchDevice(id, false), no dim command of the device is handed to the
\* transport after a switch-off command of the device.
C37_IssueOrder ==
  \A i, j \in 1..Len(debouncers.commands) :
    (i < j /\ debouncers.commands[i].type_int = DEVICE_SWITCH
       /\ debouncers.commands[i].deviceId = debouncers.commands[j].deviceId)
      => debouncers.commands[j].type_int # DEVICE_DIM

\* ------------------------------------------------------------------- C38
C38_Step ==
  (handler.immediate # << >> /\ Head(handler.immediate).kind = "callback"
     /\ HandlerImmediate) =>
    LET cb == Head(handler.immediate)
        deviceListeners == handler.listeners[cb.deviceId]
    IN  deviceListeners.present /\ indexOf(deviceListeners.callbacks, cb.callback) # 0

\* C38: a listener is invoked for a device only while it is registered for
\* it: after removeListener(id, cb) has returned, a dispatch of
\* triggerListeners(id, ...) deferred before the removal does not call cb.
C38_NoCallAfterRemoval == [][C38_Step]_vars

\* ------------------------------------------------------------------- C39
\* the handshake of this connection has come, message by message, as far as
\* the first token-apply ack: no token-renew response has arrived on it
C39_FirstAckOnly ==
  /\ scenario.on /\ Len(scenario.inLog) = 6
  /\ ws = "open" /\ authenticator.state = "awaiting_token_renew"

\* C39: the Authenticator becomes authenticated, and signals completion,
\* only after a token-renew response with a new token has arrived and the
\* renewed token was applied: a second token-apply ack that follows the
\* first one with no renew response between them does not authenticate.
C39_RenewBeforeAuthenticated ==
  \A msg \in Inbound(MaxKeys) :
    (C39_FirstAckOnly /\ msg.type_int = TOKEN_APPLY_ACK /\ msg.key <= keyCount) =>
      handleRawMessage(State, msg).authenticator.state # "authenticated"

\* ------------------------------------------------------------------- C40
\* C40: a CONNECTION_DECLINED message leaves automatic reconnection enabled:
\* whenever one arrives on a connection of a facade that reconnects, the
\* facade still reconnects afterwards, so that a new attempt follows without
\* a call of init().
C40_DeclinedKeepsReconnect ==
  \A msg \in Inbound(MaxKeys) :
    (ws = "open" /\ allowReconnect /\ msg.type_int = CONNECTION_DECLINED
       /\ msg.key <= keyCount) =>
      LET R == handleRawMessage(State, msg)
      IN  R.allowReconnect /\ (R.reconnectTimer \/ R.ws \in {"open", "connecting"})
=============================================================================
